---- MODULE Spec2Model ----
(***************************************************************************)
(* LAME bundle scheduler of one worker (struct kthread): the bundle store, *)
(* the round-robin selectors, the switching handler lame_handle and the    *)
(* dismantle path, as implemented in runtime/lame_sched.c.                 *)
(*                                                                         *)
(* The bundle k->lame_bundle is one record-valued variable whose fields    *)
(* are the fields of struct lame_bundle.  Every C function of the file is  *)
(* an operator from the state it reads to the state it leaves (and its     *)
(* return value); every action applies one such operator completely.       *)
(* `op' and `hist' are history variables: the last operation with its      *)
(* arguments and return value, and the bundle as it was before an add.     *)
(* Spec is the worker with its run queue; RRSpec and InitSpec apply the    *)
(* selector and lame_bundle_init to every well-formed bundle; BootSpec is  *)
(* runtime_init with the handler registration lame_init (runtime/init.c).  *)
(***************************************************************************)
EXTENDS Integers, Sequences, FiniteSets, TLC

\* ---- bounds of the model ------------------------------------------------
\* number of thread frames (thread_t) that exist
NThreads == 3
\* capacity of the slot array uthreads[] (scaled down)
LAME_BUNDLE_SIZE_MAX == 3
\* Spec, the worker with its run queue, is followed for configured bundle
\* sizes up to MaxCfgSize and with the first SpecThreads thread frames;
\* HandlerSpec, RRSpec and InitSpec use the whole slot array and every frame
MaxCfgSize == 2
SpecThreads == 2
\* capacity of the circular run queue k->rq (scaled down)
RUNTIME_RQ_SIZE == 1
\* cap on the absolute run-queue head counter k->rq_head
MaxRqHead == 2
\* cap on the total_lames counter
MaxLames == 1
\* number of consecutive next calls followed in RRSpec
MaxCalls == 4
\* entries of k->rq in SpillSpec, where the run queue has room for a bundle
SpillRqSize == 2
\* BitmapSpec: largest page exponent F, largest offset in the sidecar file,
\* number of ranges in it, length of the text segment in largest pages
MaxPgszFactor == 2
MaxOffset == 8
MaxSessions == 2
MaxTextPages == 2

\* ---- program constants --------------------------------------------------
ENOENT == 2
EINVAL == 22
ENOSPC == 28

NULL == 0
Threads == 1..NThreads
SpecThreadSet == 1..SpecThreads
Slots == 0..(LAME_BUNDLE_SIZE_MAX - 1)

\* struct lame_uthread_wrapper after memset(.., 0, ..)
EmptyWrapper == [uthread |-> NULL, present |-> FALSE, cycles |-> 0, lame_count |-> 0]

VARIABLES
  lame_bundle,           \* k->lame_bundle
  cfg_lame_bundle_size,  \* configured bundle size
  rq,                    \* k->rq[RUNTIME_RQ_SIZE]
  rq_head,               \* k->rq_head
  rq_tail,               \* k->rq_tail
  rq_overflow,           \* k->rq_overflow (list, head first)
  lock,                  \* k->lock is held
  thread_ready,          \* th->thread_ready of every thread frame
  thread_running,        \* th->thread_running of every thread frame
  self,                  \* per-worker __self
  preempt_cnt,           \* preemption-disable count of the worker
  fault,                 \* the process died on a NULL thread frame
  op,                    \* last operation, its arguments and result
  hist,                  \* k->lame_bundle before the last add (see Add, Remove)
  rr,                    \* threads returned by consecutive next calls (RRSpec),
                         \* threads switched to by consecutive events (ShareSpec)
  boot,                  \* runtime_init: its environment and what it did (BootSpec)
  pending                \* writes the membership operation in progress has still
                         \* to make (RaceSpec)

vars == <<lame_bundle, cfg_lame_bundle_size, rq, rq_head, rq_tail, rq_overflow,
          lock, thread_ready, thread_running, self, preempt_cnt, fault, op, hist, rr, boot, pending>>

\* ---- helpers ------------------------------------------------------------
\* number of slots in [0, b.size) with present = true
PresentCount(b) == Cardinality({i \in Slots : i < b.size /\ b.uthreads[i].present})

\* the set of threads held by occupied slots of b
Members(b) == {b.uthreads[i].uthread : i \in {j \in Slots : j < b.size /\ b.uthreads[j].present}}

\* the number of entries of the array k->rq, RUNTIME_RQ_SIZE in the source
RqSize(q) == Cardinality(DOMAIN q)

\* indices of the run-queue window [rq_tail, rq_head)
RqWindow(h, t) == {n \in 0..MaxRqHead + LAME_BUNDLE_SIZE_MAX : t <= n /\ n < h}

\* how many times thread t is queued in rq or on the overflow list
QueuedCount(q, h, t, ovf, th) ==
  Cardinality({n \in RqWindow(h, t) : q[n % RqSize(q)] = th})
  + Cardinality({n \in 1..Len(ovf) : ovf[n] = th})

\* the record of one operation: its name, its arguments (th, set_active,
\* index), its return value, `used' as it was before it, and for the handler
\* the preemption count it returned with and the two frames it switched
\* between.  The steps of the surrounding runtime are all named "runtime".
\* A next call records the thread it returned in th and the value active had
\* before it in index; a dismantle records the value active had before it.  rt: 1 after add(th, false) returned 0, 2 after the
\* remove(th) that directly follows such an add, 3 after the next call that
\* directly follows a remove_at_active that returned 0, 0 otherwise.
OpRec(name, th, flag, index, ret, b) ==
  [name |-> name, th |-> th, set_active |-> flag, index |-> index, ret |-> ret,
   used0 |-> b.used,
   preempt_ret |-> 0, jmp |-> <<NULL, NULL>>, rt |-> 0]

\* ---- lame_bundle_init / lame_bundle_cleanup -----------------------------
lame_bundle_init(b, cfg) ==
  [b EXCEPT !.uthreads = [i \in Slots |-> EmptyWrapper],
            !.size = cfg,
            !.active = 0,
            !.used = 0,
            !.total_cycles = 0,
            !.total_lames = 0,
            !.enabled = FALSE]

\* mutant of lame_bundle_cleanup: active is left where it was
lame_bundle_cleanup_keep_active(b) ==
  [b EXCEPT !.uthreads = [i \in Slots |-> EmptyWrapper],
            !.size = 0,
            !.used = 0,
            !.total_cycles = 0,
            !.total_lames = 0,
            !.enabled = FALSE]

\* mutant of lame_bundle_cleanup: size is left as configured
lame_bundle_cleanup_keep_size(b) ==
  [b EXCEPT !.uthreads = [i \in Slots |-> EmptyWrapper],
            !.active = 0,
            !.used = 0,
            !.total_cycles = 0,
            !.total_lames = 0,
            !.enabled = FALSE]

lame_bundle_cleanup(b) ==
  [b EXCEPT !.uthreads = [i \in Slots |-> EmptyWrapper],
            !.size = 0,
            !.active = 0,
            !.used = 0,
            !.total_cycles = 0,
            !.total_lames = 0,
            !.enabled = FALSE]

\* ---- lame_bundle_add_uthread --------------------------------------------
\* mutant of AddScan: every empty slot overwrites first_empty_slot
RECURSIVE AddScanLastEmpty(_, _, _, _)
AddScanLastEmpty(b, th, i, first_empty_slot) ==
  IF i >= b.size THEN [dup |-> FALSE, first_empty_slot |-> first_empty_slot]
  ELSE IF b.uthreads[i].present
       THEN IF b.uthreads[i].uthread = th
            THEN [dup |-> TRUE, first_empty_slot |-> first_empty_slot]
            ELSE AddScanLastEmpty(b, th, i + 1, first_empty_slot)
       ELSE AddScanLastEmpty(b, th, i + 1, i)

\* mutant of AddScan: the duplicate check is missing
RECURSIVE AddScanNoDup(_, _, _, _)
AddScanNoDup(b, th, i, first_empty_slot) ==
  IF i >= b.size THEN [dup |-> FALSE, first_empty_slot |-> first_empty_slot]
  ELSE IF b.uthreads[i].present
       THEN AddScanNoDup(b, th, i + 1, first_empty_slot)
       ELSE AddScanNoDup(b, th, i + 1,
                         IF first_empty_slot = -1 THEN i ELSE first_empty_slot)

\* the scan loop: stops at a duplicate, records the first empty slot
RECURSIVE AddScan(_, _, _, _)
AddScan(b, th, i, first_empty_slot) ==
  IF i >= b.size THEN [dup |-> FALSE, first_empty_slot |-> first_empty_slot]
  ELSE IF b.uthreads[i].present
       THEN IF b.uthreads[i].uthread = th
            THEN [dup |-> TRUE, first_empty_slot |-> first_empty_slot]
            ELSE AddScan(b, th, i + 1, first_empty_slot)
       ELSE AddScan(b, th, i + 1,
                    IF first_empty_slot = -1 THEN i ELSE first_empty_slot)

\* mutant of lame_bundle_add_uthread: a duplicate add with set_active makes
\* the slot of the duplicate the active one
lame_bundle_add_uthread_dup_active(b, th, set_active) ==
  LET s == AddScan(b, th, 0, -1)
      f == s.first_empty_slot
      d == CHOOSE i \in Slots : i < b.size /\ b.uthreads[i].present /\ b.uthreads[i].uthread = th
  IN  IF s.dup THEN [ret |-> 0, bundle |-> [b EXCEPT !.active = IF set_active THEN d ELSE b.active]]
      ELSE IF f = -1 THEN [ret |-> -ENOSPC, bundle |-> b]
      ELSE [ret |-> 0,
            bundle |-> [b EXCEPT
               !.uthreads[f] = [uthread |-> th, present |-> TRUE,
                                cycles |-> 0, lame_count |-> 0],
               !.used = b.used + 1,
               !.active = IF set_active THEN f ELSE b.active]]

lame_bundle_add_uthread(b, th, set_active) ==
  LET s == AddScan(b, th, 0, -1)
      f == s.first_empty_slot
  IN  IF s.dup THEN [ret |-> 0, bundle |-> b]
      ELSE IF f = -1 THEN [ret |-> -ENOSPC, bundle |-> b]
      ELSE [ret |-> 0,
            bundle |-> [b EXCEPT
               !.uthreads[f] = [uthread |-> th, present |-> TRUE,
                                cycles |-> 0, lame_count |-> 0],
               !.used = b.used + 1,
               !.active = IF set_active THEN f ELSE b.active]]

\* ---- lame_bundle_remove_uthread* ----------------------------------------
\* mutant of ClearSlot: used is not decremented
ClearSlotKeepUsed(b, i) ==
  [b EXCEPT !.uthreads[i].present = FALSE,
            !.uthreads[i].uthread = NULL]

\* mutant of ClearSlot: the thread reference is left in the slot
ClearSlotKeepPtr(b, i) ==
  [b EXCEPT !.uthreads[i].present = FALSE,
            !.used = b.used - 1]

\* clearing one slot as the three remove functions do (counters are kept)
ClearSlot(b, i) ==
  [b EXCEPT !.uthreads[i].present = FALSE,
            !.uthreads[i].uthread = NULL,
            !.used = b.used - 1]

\* mutant of RemoveScan: slot 0 is never examined
RECURSIVE RemoveScanSkipFirst(_, _, _)
RemoveScanSkipFirst(b, th, i) ==
  IF i >= b.size THEN -1
  ELSE IF i > 0 /\ b.uthreads[i].present /\ b.uthreads[i].uthread = th THEN i
  ELSE RemoveScanSkipFirst(b, th, i + 1)

\* index of the first occupied slot in [i, b.size) holding th, or -1
RECURSIVE RemoveScan(_, _, _)
RemoveScan(b, th, i) ==
  IF i >= b.size THEN -1
  ELSE IF b.uthreads[i].present /\ b.uthreads[i].uthread = th THEN i
  ELSE RemoveScan(b, th, i + 1)

lame_bundle_remove_uthread(b, th) ==
  LET i == RemoveScan(b, th, 0)
  IN  IF i = -1 THEN [ret |-> -ENOENT, bundle |-> b]
      ELSE [ret |-> 0, bundle |-> ClearSlot(b, i)]

\* mutant of lame_bundle_remove_uthread_by_index: the index is checked against
\* the capacity of the array instead of the configured size
lame_bundle_remove_uthread_by_index_cap(b, index) ==
  IF index >= LAME_BUNDLE_SIZE_MAX THEN [ret |-> -EINVAL, bundle |-> b]
  ELSE IF b.uthreads[index].present THEN [ret |-> 0, bundle |-> ClearSlot(b, index)]
  ELSE [ret |-> -ENOENT, bundle |-> b]

lame_bundle_remove_uthread_by_index(b, index) ==
  IF index >= b.size THEN [ret |-> -EINVAL, bundle |-> b]
  ELSE IF b.uthreads[index].present THEN [ret |-> 0, bundle |-> ClearSlot(b, index)]
  ELSE [ret |-> -ENOENT, bundle |-> b]

\* mutant of lame_bundle_remove_uthread_at_active: active falls back to 0
lame_bundle_remove_uthread_at_active_reset(b) ==
  IF b.uthreads[b.active].present
  THEN [ret |-> 0, bundle |-> [ClearSlot(b, b.active) EXCEPT !.active = 0]]
  ELSE [ret |-> -ENOENT, bundle |-> b]

lame_bundle_remove_uthread_at_active(b) ==
  IF b.uthreads[b.active].present THEN [ret |-> 0, bundle |-> ClearSlot(b, b.active)]
  ELSE [ret |-> -ENOENT, bundle |-> b]

lame_bundle_get_used_count(b) == b.used

\* ---- round-robin selectors ----------------------------------------------
\* mutant of NextScan: the scan starts at the active slot itself
RECURSIVE NextScanFromActive(_, _, _)
NextScanFromActive(b, start_idx, i) ==
  IF i > b.size THEN [ret |-> NULL, bundle |-> b]
  ELSE LET idx == (start_idx + i - 1) % b.size
       IN  IF b.uthreads[idx].present
           THEN [ret |-> b.uthreads[idx].uthread, bundle |-> [b EXCEPT !.active = idx]]
           ELSE NextScanFromActive(b, start_idx, i + 1)

\* the loop of lame_sched_get_next_uthread: i runs from 1 to b.size
RECURSIVE NextScan(_, _, _)
NextScan(b, start_idx, i) ==
  IF i > b.size THEN [ret |-> NULL, bundle |-> b]
  ELSE LET idx == (start_idx + i) % b.size
       IN  IF b.uthreads[idx].present
           THEN [ret |-> b.uthreads[idx].uthread, bundle |-> [b EXCEPT !.active = idx]]
           ELSE NextScan(b, start_idx, i + 1)

\* mutant of lame_sched_get_next_uthread: active is not advanced
lame_sched_get_next_uthread_keep_active(b) ==
  [ret |-> NextScan(b, b.active, 1).ret, bundle |-> b]

lame_sched_get_next_uthread(b) == NextScan(b, b.active, 1)

\* mutant of lame_sched_get_next_idx_uthread: the index wraps at size
lame_sched_get_next_idx_uthread_mod_size(b) ==
  LET next_idx == IF b.active + 1 >= b.size THEN 0 ELSE b.active + 1
  IN  [ret |-> b.uthreads[next_idx].uthread, bundle |-> [b EXCEPT !.active = next_idx]]

lame_sched_get_next_idx_uthread(b) ==
  LET next_idx == IF b.active + 1 >= b.used THEN 0 ELSE b.active + 1
  IN  [ret |-> b.uthreads[next_idx].uthread, bundle |-> [b EXCEPT !.active = next_idx]]

lame_sched_get_current_uthread(b) ==
  IF b.uthreads[b.active].present THEN b.uthreads[b.active].uthread ELSE NULL

lame_sched_get_current_uthread_nocheck(b) == b.uthreads[b.active].uthread

\* ---- gating ---------------------------------------------------------------
lame_sched_is_enabled(b) == b.enabled
\* mutant of lame_sched_enable: the flag is set only when size > 1
lame_sched_enable_if_static(b) == [b EXCEPT !.enabled = (b.size > 1)]

lame_sched_enable(b) == [b EXCEPT !.enabled = TRUE]
lame_sched_disable(b) == [b EXCEPT !.enabled = FALSE]
lame_sched_is_statically_enabled(b) == b.size > 1
lame_sched_is_dynamically_enabled(b) == b.enabled

needs_xsave(rip) == TRUE

\* ---- lame_handle ----------------------------------------------------------
\* mutant of lame_handle: only an empty bundle takes the early return
lame_handle_empty_only(b, me, pcnt, rip) ==
  IF lame_bundle_get_used_count(b) < 1
  THEN [bundle |-> b, self |-> me, preempt |-> pcnt - 1, switched |-> FALSE,
        cur_th |-> NULL, next_th |-> NULL]
  ELSE LET cur_th == lame_sched_get_current_uthread_nocheck(b)
           n == lame_sched_get_next_idx_uthread(b)
           b1 == [n.bundle EXCEPT !.total_lames = @ + 1]
           b2 == IF needs_xsave(rip) THEN [b1 EXCEPT !.total_xsave_lames = @ + 1] ELSE b1
       IN  [bundle |-> b2, self |-> n.ret, preempt |-> pcnt, switched |-> TRUE,
            cur_th |-> cur_th, next_th |-> n.ret]

\* b: the bundle, me: __self, pcnt: preemption count on entry (the trap stub
\* has disabled preemption).  switched: __lame_jmp_thread_direct was called
\* with the frames of cur_th and next_th.
lame_handle(b, me, pcnt, rip) ==
  IF lame_bundle_get_used_count(b) <= 1
  THEN [bundle |-> b, self |-> me, preempt |-> pcnt - 1, switched |-> FALSE,
        cur_th |-> NULL, next_th |-> NULL]
  ELSE LET cur_th == lame_sched_get_current_uthread_nocheck(b)
           n == lame_sched_get_next_idx_uthread(b)
           b1 == [n.bundle EXCEPT !.total_lames = @ + 1]
           b2 == IF needs_xsave(rip) THEN [b1 EXCEPT !.total_xsave_lames = @ + 1] ELSE b1
       IN  [bundle |-> b2, self |-> n.ret, preempt |-> pcnt, switched |-> TRUE,
            cur_th |-> cur_th, next_th |-> n.ret]

\* ---- dismantle path --------------------------------------------------------
\* The worker state the spill reads and writes, as one record:
\*   [bundle, rq, rq_head, rq_tail, rq_overflow, thread_ready, thread_running]
\* drain_overflow of the runtime scheduler: move overflow entries into rq
\* while it has room
RECURSIVE drain_overflow(_)
drain_overflow(k) ==
  IF k.rq_head - k.rq_tail < RqSize(k.rq) /\ k.rq_overflow # <<>>
  THEN drain_overflow([k EXCEPT
         !.rq[k.rq_head % RqSize(k.rq)] = Head(k.rq_overflow),
         !.rq_head = k.rq_head + 1,
         !.rq_overflow = Tail(k.rq_overflow)])
  ELSE k

\* mutant of SpillSlot: thread_running is left as it was
SpillSlotKeepRunning(k, i) ==
  LET th == k.bundle.uthreads[i].uthread
      k1 == [k EXCEPT !.thread_ready[th] = TRUE]
      k2 == IF k1.rq_head - k1.rq_tail >= RqSize(k1.rq) \/ k1.rq_overflow # <<>>
            THEN drain_overflow([k1 EXCEPT !.rq_overflow = Append(@, th)])
            ELSE [k1 EXCEPT !.rq[k1.rq_head % RqSize(k1.rq)] = th,
                            !.rq_head = k1.rq_head + 1]
  IN  [k2 EXCEPT !.bundle.uthreads[i] = EmptyWrapper]

\* mutant of SpillSlot: a non-empty overflow list is not looked at
SpillSlotIgnoreOverflow(k, i) ==
  LET th == k.bundle.uthreads[i].uthread
      k1 == [k EXCEPT !.thread_ready[th] = TRUE, !.thread_running[th] = FALSE]
      k2 == IF k1.rq_head - k1.rq_tail >= RqSize(k1.rq)
            THEN drain_overflow([k1 EXCEPT !.rq_overflow = Append(@, th)])
            ELSE [k1 EXCEPT !.rq[k1.rq_head % RqSize(k1.rq)] = th,
                            !.rq_head = k1.rq_head + 1]
  IN  [k2 EXCEPT !.bundle.uthreads[i] = EmptyWrapper]

\* body of the loop of __lame_bundle_to_rq for an occupied slot i
SpillSlot(k, i) ==
  LET th == k.bundle.uthreads[i].uthread
      k1 == [k EXCEPT !.thread_ready[th] = TRUE, !.thread_running[th] = FALSE]
      k2 == IF k1.rq_head - k1.rq_tail >= RqSize(k1.rq) \/ k1.rq_overflow # <<>>
            THEN drain_overflow([k1 EXCEPT !.rq_overflow = Append(@, th)])
            ELSE [k1 EXCEPT !.rq[k1.rq_head % RqSize(k1.rq)] = th,
                            !.rq_head = k1.rq_head + 1]
  IN  [k2 EXCEPT !.bundle.uthreads[i] = EmptyWrapper]

\* mutant of BundleToRqFrom: the higher slots are spilled first
RECURSIVE BundleToRqFromRev(_, _)
BundleToRqFromRev(k, i) ==
  IF i >= k.bundle.size THEN k
  ELSE LET k1 == BundleToRqFromRev(k, i + 1)
       IN  IF k1.bundle.uthreads[i].present THEN SpillSlot(k1, i) ELSE k1

\* __lame_bundle_to_rq from slot i on
RECURSIVE BundleToRqFrom(_, _)
BundleToRqFrom(k, i) ==
  IF i >= k.bundle.size THEN k
  ELSE IF k.bundle.uthreads[i].present THEN BundleToRqFrom(SpillSlot(k, i), i + 1)
  ELSE BundleToRqFrom(k, i + 1)

lame_bundle_to_rq(k) == BundleToRqFrom(k, 0)

\* mutant of DismantleBody: active is not reset
DismantleBodyKeepActive(k) ==
  LET k1 == IF k.bundle.used >= 1 THEN lame_bundle_to_rq(k) ELSE k
  IN  [k1 EXCEPT !.bundle.used = 0]

\* mutant of DismantleBody: the reset also clears enabled and total_lames
DismantleBodyResetAll(k) ==
  LET k1 == IF k.bundle.used >= 1 THEN lame_bundle_to_rq(k) ELSE k
  IN  [k1 EXCEPT !.bundle.used = 0, !.bundle.active = 0,
                 !.bundle.enabled = FALSE, !.bundle.total_lames = 0]

\* the body shared by lame_sched_bundle_dismantle and .._dismantle_nolock;
\* the former takes and releases k->lock around the spill, the latter runs
\* with the lock held by its caller
DismantleBody(k) ==
  LET k1 == IF k.bundle.used >= 1 THEN lame_bundle_to_rq(k) ELSE k
  IN  [k1 EXCEPT !.bundle.used = 0, !.bundle.active = 0]

lame_sched_bundle_dismantle(k) == DismantleBody(k)

lame_sched_bundle_dismantle_nolock(k) == DismantleBody(k)

\* bundle members are th->thread_ready = false / th->thread_running = true
lame_bundle_set_ready_false_all(b, ready) ==
  [t \in Threads |-> IF t \in Members(b) THEN FALSE ELSE ready[t]]

lame_bundle_set_running_true_all(b, running) ==
  [t \in Threads |-> IF t \in Members(b) THEN TRUE ELSE running[t]]

\* ---- runtime_init and lame_init (runtime/init.c) ---------------------------
\* boot outside BootSpec: runtime_init is not part of the behaviour
NoBoot == [done |-> FALSE]

\* cfg_lame_register (RT_LAME_REGISTER_*) and cfg_lame_tsc (LAME_TSC_*)
RegisterModes == {"none", "int", "pmu", "stall", "nop"}
TscModes == {"off", "pretend", "nop"}

\* what lame_init did: its return value, whether /dev/lame was opened and
\* closed, the ioctl request it issued ("none" if it issued none) and the
\* handler address it passed
LameInitResult(ret, opened, closed, ioctl, handler_addr) ==
  [ret |-> ret, opened |-> opened, closed |-> closed, ioctl |-> ioctl,
   handler_addr |-> handler_addr]

NoLameInit == LameInitResult(0, FALSE, FALSE, "none", "none")

\* the handler stub lame_init registers
LameHandlerAddr(register, tsc, size) ==
  IF register = "pmu" THEN "__lame_entry_bret"
  ELSE IF register = "stall" THEN "__lame_entry_stall_bret"
  ELSE IF register = "nop" THEN "__lame_entry_nop_bret"
  ELSE IF tsc = "pretend" THEN "__lame_entry2_pretend"
  ELSE IF tsc = "nop" THEN "__lame_entry_nop"
  ELSE IF size = 2 THEN "__lame_entry2"
  ELSE "__lame_entry"

\* open_ret: what open("/dev/lame") returns; ioctl_ret: what the ioctl returns
lame_init(register, tsc, size, open_ret, ioctl_ret) ==
  IF register = "none" THEN NoLameInit
  ELSE IF open_ret < 0 THEN LameInitResult(open_ret, FALSE, FALSE, "none", "none")
  ELSE IF tsc # "off" /\ size # 2
       THEN LameInitResult(-EINVAL, TRUE, FALSE, "none", "none")
  ELSE LameInitResult(ioctl_ret, TRUE, TRUE,
                      IF register = "int" THEN "LAME_REGISTER_INT" ELSE "LAME_REGISTER_PMU",
                      LameHandlerAddr(register, tsc, size))

\* the value of an int read through the declaration
\* extern uint64_t cfg_lame_bitmap_pgsz_factor (width scaled down to 8 bits)
U64(x) == x % 256

\* the phases of runtime_init that return their error, in order, with
\* lame_init among them and sched_start, which does not return, at the end
Phases ==
  <<"ioqueues_init_early", "base_init", "cfg_load", "gpr_bitmap_init", "lame_init",
    "run_init_handlers_global", "global_init_hook", "ioqueues_register_iokernel",
    "late_init_hook", "sched_start">>

\* the phases whose result the environment decides
EnvPhases == {Phases[i] : i \in 1..Len(Phases)} \ {"lame_init", "sched_start"}

\* mutant of RunPhases: a failed lame_init is returned like any other error
RECURSIVE RunPhasesLameFatal(_, _, _, _)
RunPhasesLameFatal(env, size, i, st) ==
  LET ph == Phases[i]
      st1 == [st EXCEPT !.reached = @ \cup {ph}]
  IN  IF ph = "sched_start" THEN [st1 EXCEPT !.started = TRUE]
      ELSE IF ph = "gpr_bitmap_init" /\ ~(U64(env.bitmap_pgsz_factor) >= 0)
      THEN RunPhasesLameFatal(env, size, i + 1, st)
      ELSE IF ph = "lame_init"
      THEN LET l == lame_init(env.register, env.tsc, size, env.open_ret, env.ioctl_ret)
           IN  IF l.ret # 0 THEN [st1 EXCEPT !.lame = l, !.ret = l.ret, !.returned = TRUE]
               ELSE RunPhasesLameFatal(env, size, i + 1, [st1 EXCEPT !.lame = l])
      ELSE IF env.res[ph] # 0 THEN [st1 EXCEPT !.ret = env.res[ph], !.returned = TRUE]
      ELSE RunPhasesLameFatal(env, size, i + 1, st1)

\* runtime_init from phase i on.  st: the phases reached so far, the result of
\* lame_init, whether the "LAME capability not enabled" warning was logged,
\* whether runtime_init returned and with what, whether sched_start ran.
RECURSIVE RunPhases(_, _, _, _)
RunPhases(env, size, i, st) ==
  LET ph == Phases[i]
      st1 == [st EXCEPT !.reached = @ \cup {ph}]
  IN  IF ph = "sched_start" THEN [st1 EXCEPT !.started = TRUE]
      ELSE IF ph = "gpr_bitmap_init" /\ ~(U64(env.bitmap_pgsz_factor) >= 0)
      THEN RunPhases(env, size, i + 1, st)
      ELSE IF ph = "lame_init"
      THEN LET l == lame_init(env.register, env.tsc, size, env.open_ret, env.ioctl_ret)
           IN  RunPhases(env, size, i + 1, [st1 EXCEPT !.lame = l, !.warned = (l.ret # 0)])
      ELSE IF env.res[ph] # 0 THEN [st1 EXCEPT !.ret = env.res[ph], !.returned = TRUE]
      ELSE RunPhases(env, size, i + 1, st1)

NoOut ==
  [reached |-> {}, lame |-> NoLameInit, warned |-> FALSE, returned |-> FALSE,
   ret |-> 0, started |-> FALSE]

runtime_init(env, size) == RunPhases(env, size, 1, NoOut)

\* the environments of runtime_init: the configuration, what the kernel
\* device answers, and the result of every other phase
BootEnvs ==
  [register : RegisterModes, tsc : TscModes, open_ret : {3, -1}, ioctl_ret : {0, -1},
   bitmap_pgsz_factor : {-1, 0}, res : [EnvPhases -> {0, -1}]]

\* ---- state machine --------------------------------------------------------
\* The worker holds k->lock (spin_lock disables preemption) only around the
\* spill of lame_sched_bundle_dismantle_nolock: while the lock is held no
\* other operation of the bundle and no asynchronous event runs.
ZeroBundle ==
  [uthreads |-> [i \in Slots |-> EmptyWrapper], size |-> 0, used |-> 0, active |-> 0,
   total_cycles |-> 0, total_lames |-> 0, total_xsave_lames |-> 0, enabled |-> FALSE]

\* the worker as the record the spill works on
KThread ==
  [bundle |-> lame_bundle, rq |-> rq, rq_head |-> rq_head, rq_tail |-> rq_tail,
   rq_overflow |-> rq_overflow, thread_ready |-> thread_ready,
   thread_running |-> thread_running]

\* threads queued in rq or on the overflow list: owned by the run queue
Queued == {t \in Threads : QueuedCount(rq, rq_head, rq_tail, rq_overflow, t) > 0}

\* A thread frame the runtime holds (running, or parked in the bundle) has
\* thread_ready = false and thread_running = true.
InitOf(sizes) ==
  /\ cfg_lame_bundle_size \in sizes
  /\ lame_bundle = lame_bundle_init(ZeroBundle, cfg_lame_bundle_size)
  /\ rq = [n \in 0..(RUNTIME_RQ_SIZE - 1) |-> NULL]
  /\ rq_head = 0
  /\ rq_tail = 0
  /\ rq_overflow = <<>>
  /\ lock = FALSE
  /\ thread_ready = [t \in Threads |-> FALSE]
  /\ thread_running = [t \in Threads |-> TRUE]
  /\ self = NULL
  /\ preempt_cnt = 0
  /\ fault = FALSE
  /\ op = OpRec("start", NULL, FALSE, 0, 0, lame_bundle)
  /\ hist = ZeroBundle
  /\ rr = <<>>
  /\ boot = NoBoot
  /\ pending = <<>>

Init == InitOf(1..MaxCfgSize)

BundleOnly == <<cfg_lame_bundle_size, rq, rq_head, rq_tail, rq_overflow, lock,
                thread_ready, thread_running, self, preempt_cnt, fault, rr, boot, pending>>

BundleInit ==
  /\ ~fault
  /\ ~lock
  /\ lame_bundle' = lame_bundle_init(lame_bundle, cfg_lame_bundle_size)
  /\ op' = OpRec("init", NULL, FALSE, 0, 0, lame_bundle)
  /\ hist' = ZeroBundle
  /\ UNCHANGED BundleOnly

BundleCleanup ==
  /\ ~fault
  /\ ~lock
  /\ lame_bundle' = lame_bundle_cleanup(lame_bundle)
  /\ op' = OpRec("cleanup", NULL, FALSE, 0, 0, lame_bundle)
  /\ hist' = ZeroBundle
  /\ UNCHANGED BundleOnly

\* the runtime adds a thread it holds (one of T that is not queued)
AddOf(T) ==
  /\ ~fault
  /\ ~lock
  /\ \E th \in T \ Queued, set_active \in BOOLEAN :
       LET r == lame_bundle_add_uthread(lame_bundle, th, set_active)
           rt == IF r.ret = 0 /\ ~set_active THEN 1 ELSE 0
       IN  /\ lame_bundle' = r.bundle
           /\ op' = [OpRec("add", th, set_active, 0, r.ret, lame_bundle) EXCEPT !.rt = rt]
           /\ hist' = IF rt = 1 THEN lame_bundle ELSE ZeroBundle
  /\ UNCHANGED BundleOnly

Add == AddOf(SpecThreadSet)

RemoveOf(T) ==
  /\ ~fault
  /\ ~lock
  /\ \E th \in T :
       LET r == lame_bundle_remove_uthread(lame_bundle, th)
           rt == IF op.rt = 1 /\ op.th = th THEN 2 ELSE 0
       IN  /\ lame_bundle' = r.bundle
           /\ op' = [OpRec("remove", th, FALSE, 0, r.ret, lame_bundle) EXCEPT !.rt = rt]
           /\ hist' = IF rt = 2 THEN hist ELSE ZeroBundle
  /\ UNCHANGED BundleOnly

Remove == RemoveOf(SpecThreadSet)

RemoveByIndexOf(I) ==
  /\ ~fault
  /\ ~lock
  /\ \E index \in I :
       LET r == lame_bundle_remove_uthread_by_index(lame_bundle, index)
       IN  /\ lame_bundle' = r.bundle
           /\ op' = OpRec("remove_by_index", NULL, FALSE, index, r.ret, lame_bundle)
  /\ hist' = ZeroBundle
  /\ UNCHANGED BundleOnly

RemoveByIndex == RemoveByIndexOf(0..MaxCfgSize)

RemoveAtActive ==
  /\ ~fault
  /\ ~lock
  /\ LET r == lame_bundle_remove_uthread_at_active(lame_bundle)
     IN  /\ lame_bundle' = r.bundle
         /\ op' = OpRec("remove_at_active", NULL, FALSE, 0, r.ret, lame_bundle)
  /\ hist' = ZeroBundle
  /\ UNCHANGED BundleOnly

GetNext ==
  /\ ~fault
  /\ ~lock
  /\ LET r == lame_sched_get_next_uthread(lame_bundle)
         rt == IF op.name = "remove_at_active" /\ op.ret = 0 THEN 3 ELSE 0
     IN  /\ lame_bundle' = r.bundle
         /\ op' = [OpRec("next", r.ret, FALSE, lame_bundle.active, 0, lame_bundle)
                     EXCEPT !.rt = rt]
  /\ hist' = ZeroBundle
  /\ UNCHANGED BundleOnly

Enable ==
  /\ ~fault
  /\ ~lock
  /\ lame_bundle' = lame_sched_enable(lame_bundle)
  /\ op' = OpRec("enable", NULL, FALSE, 0, 0, lame_bundle)
  /\ hist' = ZeroBundle
  /\ UNCHANGED BundleOnly

Disable ==
  /\ ~fault
  /\ ~lock
  /\ lame_bundle' = lame_sched_disable(lame_bundle)
  /\ op' = OpRec("disable", NULL, FALSE, 0, 0, lame_bundle)
  /\ hist' = ZeroBundle
  /\ UNCHANGED BundleOnly

\* the trap stub disables preemption before it calls lame_handle, and the
\* return through the stub of the resumed thread enables it again
LameStubEntry(pcnt) == pcnt + 1

LameStubExit(pcnt) == pcnt - 1

\* one asynchronous event: trap stub, lame_handle, return through the stub.
\* A switch from or to a NULL thread frame kills the process.
LameHandle ==
  /\ ~fault
  /\ ~lock
  /\ lame_bundle.used <= 1 \/ lame_bundle.total_xsave_lames < MaxLames
  /\ LET r == lame_handle(lame_bundle, self, LameStubEntry(preempt_cnt), 0)
         dead == r.switched /\ (r.cur_th = NULL \/ r.next_th = NULL)
     IN  /\ lame_bundle' = r.bundle
         /\ self' = r.self
         /\ fault' = dead
         /\ preempt_cnt' = IF r.switched /\ ~dead THEN LameStubExit(r.preempt) ELSE r.preempt
         /\ op' = [OpRec("handle", NULL, r.switched, 0, 0, lame_bundle) EXCEPT
                     !.preempt_ret = r.preempt, !.jmp = <<r.cur_th, r.next_th>>]
  /\ hist' = ZeroBundle
  /\ UNCHANGED <<cfg_lame_bundle_size, rq, rq_head, rq_tail, rq_overflow, lock,
                 thread_ready, thread_running, rr, boot, pending>>

\* what a spill leaves in the worker
SetKThread(k) ==
  /\ lame_bundle' = k.bundle
  /\ rq' = k.rq
  /\ rq_head' = k.rq_head
  /\ rq_overflow' = k.rq_overflow
  /\ thread_ready' = k.thread_ready
  /\ thread_running' = k.thread_running

\* spin_lock(&k->lock) needs the lock free; it is released on return
Dismantle ==
  /\ ~fault
  /\ ~lock
  /\ rq_head + Len(rq_overflow) + lame_bundle.used <= MaxRqHead
  /\ SetKThread(lame_sched_bundle_dismantle(KThread))
  /\ op' = OpRec("dismantle", NULL, FALSE, lame_bundle.active, 0, lame_bundle)
  /\ hist' = ZeroBundle
  /\ UNCHANGED <<cfg_lame_bundle_size, rq_tail, lock, self, preempt_cnt, fault, rr, boot, pending>>

\* assert_spin_lock_held(&k->lock): the caller holds the lock
DismantleNolock ==
  /\ ~fault
  /\ lock
  /\ rq_head + Len(rq_overflow) + lame_bundle.used <= MaxRqHead
  /\ SetKThread(lame_sched_bundle_dismantle_nolock(KThread))
  /\ op' = OpRec("dismantle_nolock", NULL, FALSE, lame_bundle.active, 0, lame_bundle)
  /\ hist' = ZeroBundle
  /\ UNCHANGED <<cfg_lame_bundle_size, rq_tail, lock, self, preempt_cnt, fault, rr, boot, pending>>

SetReadyFalseAll ==
  /\ ~fault
  /\ ~lock
  /\ thread_ready' = lame_bundle_set_ready_false_all(lame_bundle, thread_ready)
  /\ op' = OpRec("set_flags_all", NULL, FALSE, 0, 0, lame_bundle)
  /\ hist' = ZeroBundle
  /\ UNCHANGED <<lame_bundle, cfg_lame_bundle_size, rq, rq_head, rq_tail, rq_overflow,
                 lock, thread_running, self, preempt_cnt, fault, rr, boot, pending>>

SetRunningTrueAll ==
  /\ ~fault
  /\ ~lock
  /\ thread_running' = lame_bundle_set_running_true_all(lame_bundle, thread_running)
  /\ op' = OpRec("set_flags_all", NULL, FALSE, 0, 0, lame_bundle)
  /\ hist' = ZeroBundle
  /\ UNCHANGED <<lame_bundle, cfg_lame_bundle_size, rq, rq_head, rq_tail, rq_overflow,
                 lock, thread_ready, self, preempt_cnt, fault, rr, boot, pending>>

\* ---- the surrounding runtime ----------------------------------------------
\* the runtime takes and releases the worker lock
SpinLock ==
  /\ ~fault
  /\ ~lock
  /\ lock' = TRUE
  /\ op' = OpRec("runtime", NULL, FALSE, 0, 0, lame_bundle)
  /\ hist' = ZeroBundle
  /\ UNCHANGED <<lame_bundle, cfg_lame_bundle_size, rq, rq_head, rq_tail, rq_overflow,
                 thread_ready, thread_running, self, preempt_cnt, fault, rr, boot, pending>>

SpinUnlock ==
  /\ ~fault
  /\ lock
  /\ lock' = FALSE
  /\ op' = OpRec("runtime", NULL, FALSE, 0, 0, lame_bundle)
  /\ hist' = ZeroBundle
  /\ UNCHANGED <<lame_bundle, cfg_lame_bundle_size, rq, rq_head, rq_tail, rq_overflow,
                 thread_ready, thread_running, self, preempt_cnt, fault, rr, boot, pending>>

\* The scheduler dequeues the oldest thread of rq under the lock, marks it
\* running, and refills rq from the overflow list.  The consumed entry is
\* blanked here so that rq shows exactly the entries still queued.
RqPop ==
  /\ ~fault
  /\ ~lock
  /\ rq_head # rq_tail
  /\ LET th == rq[rq_tail % RqSize(rq)]
         k == drain_overflow([KThread EXCEPT !.rq[rq_tail % RqSize(rq)] = NULL,
                                             !.rq_tail = rq_tail + 1])
     IN  /\ rq' = k.rq
         /\ rq_head' = k.rq_head
         /\ rq_tail' = k.rq_tail
         /\ rq_overflow' = k.rq_overflow
         /\ thread_ready' = [thread_ready EXCEPT ![th] = FALSE]
         /\ thread_running' = [thread_running EXCEPT ![th] = TRUE]
         /\ op' = OpRec("runtime", th, FALSE, 0, 0, lame_bundle)
  /\ hist' = ZeroBundle
  /\ UNCHANGED <<lame_bundle, cfg_lame_bundle_size, lock, self, preempt_cnt, fault, rr, boot, pending>>

Next ==
  \/ BundleInit
  \/ BundleCleanup
  \/ Add
  \/ Remove
  \/ RemoveByIndex
  \/ RemoveAtActive
  \/ GetNext
  \/ Enable
  \/ Disable
  \/ LameHandle
  \/ Dismantle
  \/ DismantleNolock
  \/ SetReadyFalseAll
  \/ SetRunningTrueAll
  \/ SpinLock
  \/ SpinUnlock
  \/ RqPop

Spec == Init /\ [][Next]_vars

\* ---- the selector on its own: RRSpec ---------------------------------------
\* The bundles the operations above can leave behind under configured size
\* cfg: size is cfg, or 0 after cleanup; slots at and beyond size are empty,
\* an empty slot holds NULL, no thread sits in two slots, used counts the
\* occupied slots, active < size (0 when size = 0); the per-slot counters and
\* total_cycles are never written to anything but 0; total_xsave_lames is 0
\* unless cfg >= 2 allowed a switch; total_lames counts switches, stalls
\* (lame_stall) and slow-path returns and is reset by init and cleanup.
SlotFills(sz) ==
  {f \in [Slots -> Threads \cup {NULL}] :
     /\ \A i \in Slots : i >= sz => f[i] = NULL
     /\ \A i, j \in Slots : (i # j /\ f[i] # NULL) => f[i] # f[j]}

BundleOf(sz, f, a, en, tl, tx) ==
  [uthreads |-> [i \in Slots |-> IF f[i] = NULL THEN EmptyWrapper
                                 ELSE [uthread |-> f[i], present |-> TRUE,
                                       cycles |-> 0, lame_count |-> 0]],
   size |-> sz, used |-> Cardinality({i \in Slots : f[i] # NULL}), active |-> a,
   total_cycles |-> 0, total_lames |-> tl, total_xsave_lames |-> tx, enabled |-> en]

\* values of active the operations leave under size sz
ActiveValues(sz) == {a \in Slots : a < sz \/ a = 0}

ReachableBundles(cfg) ==
  UNION {{BundleOf(sz, f, a, en, tl, tx) :
            f \in SlotFills(sz), a \in ActiveValues(sz), en \in BOOLEAN,
            tl \in 0..MaxLames, tx \in IF cfg < 2 THEN {0} ELSE 0..MaxLames} :
         sz \in {0, cfg}}

\* everything but the bundle, as Init leaves it
RestAtInit ==
  /\ rq = [n \in 0..(RUNTIME_RQ_SIZE - 1) |-> NULL]
  /\ rq_head = 0
  /\ rq_tail = 0
  /\ rq_overflow = <<>>
  /\ lock = FALSE
  /\ thread_ready = [t \in Threads |-> FALSE]
  /\ thread_running = [t \in Threads |-> TRUE]
  /\ self = NULL
  /\ preempt_cnt = 0
  /\ fault = FALSE
  /\ pending = <<>>

\* any bundle of the configured size; hist keeps it for the properties
RRInit ==
  /\ cfg_lame_bundle_size \in 1..LAME_BUNDLE_SIZE_MAX
  /\ lame_bundle \in {b \in ReachableBundles(cfg_lame_bundle_size) :
                         b.size = cfg_lame_bundle_size}
  /\ hist = lame_bundle
  /\ rr = <<>>
  /\ boot = NoBoot
  /\ op = OpRec("start", NULL, FALSE, 0, 0, lame_bundle)
  /\ RestAtInit

\* one more next call, with no membership operation in between
RRNext ==
  /\ Len(rr) < MaxCalls
  /\ LET r == lame_sched_get_next_uthread(lame_bundle)
     IN  /\ lame_bundle' = r.bundle
         /\ rr' = Append(rr, r.ret)
         /\ op' = OpRec("next", r.ret, FALSE, lame_bundle.active, 0, lame_bundle)
  /\ UNCHANGED <<cfg_lame_bundle_size, rq, rq_head, rq_tail, rq_overflow, lock,
                 thread_ready, thread_running, self, preempt_cnt, fault, hist, boot, pending>>

RRSpec == RRInit /\ [][RRNext]_vars

\* ---- lame_bundle_init on its own: InitSpec ----------------------------------
\* lame_bundle_init reads the configured size from the global
\* cfg_lame_bundle_size; here that global holds any value from 0 to one more
\* than the capacity, and the bundle is in any state an earlier configuration
\* can have left.  The function returns void: ret is 0 for every input.
CfgInit ==
  /\ cfg_lame_bundle_size \in 0..(LAME_BUNDLE_SIZE_MAX + 1)
  /\ lame_bundle \in UNION {ReachableBundles(c) : c \in 1..LAME_BUNDLE_SIZE_MAX}
  /\ hist = ZeroBundle
  /\ rr = <<>>
  /\ boot = NoBoot
  /\ op = OpRec("start", NULL, FALSE, 0, 0, lame_bundle)
  /\ RestAtInit

InitCall ==
  /\ lame_bundle' = lame_bundle_init(lame_bundle, cfg_lame_bundle_size)
  /\ op' = OpRec("init", NULL, FALSE, 0, 0, lame_bundle)
  /\ UNCHANGED <<cfg_lame_bundle_size, rq, rq_head, rq_tail, rq_overflow, lock,
                 thread_ready, thread_running, self, preempt_cnt, fault, hist, rr, boot, pending>>

InitSpec == CfgInit /\ [][InitCall]_vars

\* ---- runtime_init on its own: BootSpec -------------------------------------
\* the process before runtime_init: configuration and environment are any of
\* BootEnvs, no worker has initialised its bundle yet
BootInit ==
  /\ cfg_lame_bundle_size \in 1..LAME_BUNDLE_SIZE_MAX
  /\ boot \in {[done |-> FALSE, env |-> e, out |-> NoOut] : e \in BootEnvs}
  /\ lame_bundle = ZeroBundle
  /\ hist = ZeroBundle
  /\ rr = <<>>
  /\ op = OpRec("start", NULL, FALSE, 0, 0, lame_bundle)
  /\ RestAtInit

RuntimeInit ==
  /\ ~boot.done
  /\ boot' = [boot EXCEPT !.done = TRUE,
                          !.out = runtime_init(boot.env, cfg_lame_bundle_size)]
  /\ UNCHANGED <<lame_bundle, cfg_lame_bundle_size, rq, rq_head, rq_tail, rq_overflow,
                 lock, thread_ready, thread_running, self, preempt_cnt, fault, op,
                 hist, rr, pending>>

BootSpec == BootInit /\ [][RuntimeInit]_vars

\* ---- the handler over the whole slot array: HandlerSpec ----------------------
\* The worker of Spec with every configured size the array allows and every
\* thread frame: membership operations, the scanning selector, the gate,
\* lame_handle, the locked dismantle and the scheduler taking threads back.
HandlerInit == InitOf(1..LAME_BUNDLE_SIZE_MAX)

HandlerNext ==
  \/ AddOf(Threads)
  \/ RemoveOf(Threads)
  \/ RemoveByIndexOf(0..LAME_BUNDLE_SIZE_MAX)
  \/ RemoveAtActive
  \/ GetNext
  \/ Enable
  \/ Disable
  \/ LameHandle
  \/ Dismantle
  \/ RqPop

HandlerSpec == HandlerInit /\ [][HandlerNext]_vars

\* ---- asynchronous events on a fixed membership: ShareSpec -------------------
\* a bundle of the configured size with its counters at 0, whose active
\* thread is the one running; hist keeps the bundle for the properties
ShareInit ==
  /\ cfg_lame_bundle_size \in 1..LAME_BUNDLE_SIZE_MAX
  /\ lame_bundle \in {b \in ReachableBundles(cfg_lame_bundle_size) :
                         /\ b.size = cfg_lame_bundle_size
                         /\ b.total_lames = 0 /\ b.total_xsave_lames = 0}
  /\ hist = lame_bundle
  /\ rr = <<>>
  /\ boot = NoBoot
  /\ op = OpRec("start", NULL, FALSE, 0, 0, lame_bundle)
  /\ rq = [n \in 0..(RUNTIME_RQ_SIZE - 1) |-> NULL]
  /\ rq_head = 0
  /\ rq_tail = 0
  /\ rq_overflow = <<>>
  /\ lock = FALSE
  /\ thread_ready = [t \in Threads |-> FALSE]
  /\ thread_running = [t \in Threads |-> TRUE]
  /\ self = lame_sched_get_current_uthread_nocheck(lame_bundle)
  /\ preempt_cnt = 0
  /\ fault = FALSE
  /\ pending = <<>>

\* one more asynchronous event, with no membership operation in between; rr
\* collects the thread each switch stored in __self
LameShare ==
  /\ ~fault
  /\ Len(rr) < MaxCalls
  /\ LET r == lame_handle(lame_bundle, self, LameStubEntry(preempt_cnt), 0)
         dead == r.switched /\ (r.cur_th = NULL \/ r.next_th = NULL)
     IN  /\ lame_bundle' = r.bundle
         /\ self' = r.self
         /\ fault' = dead
         /\ preempt_cnt' = IF r.switched /\ ~dead THEN LameStubExit(r.preempt) ELSE r.preempt
         /\ rr' = IF r.switched THEN Append(rr, r.self) ELSE rr
         /\ op' = [OpRec("handle", NULL, r.switched, 0, 0, lame_bundle) EXCEPT
                     !.preempt_ret = r.preempt, !.jmp = <<r.cur_th, r.next_th>>]
  /\ UNCHANGED <<cfg_lame_bundle_size, rq, rq_head, rq_tail, rq_overflow, lock,
                 thread_ready, thread_running, hist, boot, pending>>

ShareSpec == ShareInit /\ [][LameShare]_vars

\* ---- membership operations write by write: RaceSpec -------------------------
\* A membership operation is the sequence of its stores in program order.  The
\* runtime code making them runs in the context of the thread __self names
\* (owner); an asynchronous event may arrive between any two stores.  v is
\* the value stored, i the slot.
Write(w, i, v) == [w |-> w, i |-> i, v |-> v, owner |-> self]

\* the stores of lame_bundle_add_uthread after its scan found slot f
AddWrites(b, th, set_active) ==
  LET s == AddScan(b, th, 0, -1)
      f == s.first_empty_slot
  IN  IF s.dup \/ f = -1 THEN <<>>
      ELSE <<Write("uthread", f, th), Write("present", f, 1), Write("cycles", f, 0),
             Write("lame_count", f, 0), Write("used++", f, 0)>>
           \o (IF set_active THEN <<Write("active", f, f)>> ELSE <<>>)

\* the stores of the three remove functions on slot i
ClearWrites(i) ==
  <<Write("present", i, 0), Write("uthread", i, NULL), Write("used--", i, 0)>>

\* lame_sched_bundle_dismantle: the spill of each slot under k->lock, then
\* the two resets after the lock is released
DismantleWrites(b) ==
  (IF b.used >= 1
   THEN <<Write("spin_lock", 0, 0)>>
        \o [n \in 1..b.size |-> Write("spill", n - 1, 0)]
        \o <<Write("spin_unlock", 0, 0)>>
   ELSE <<>>)
  \o <<Write("used", 0, 0), Write("active", 0, 0)>>

\* the worker after store w
Store(k, w) ==
  CASE w.w = "uthread"    -> [k EXCEPT !.bundle.uthreads[w.i].uthread = w.v]
    [] w.w = "present"    -> [k EXCEPT !.bundle.uthreads[w.i].present = (w.v = 1)]
    [] w.w = "cycles"     -> [k EXCEPT !.bundle.uthreads[w.i].cycles = w.v]
    [] w.w = "lame_count" -> [k EXCEPT !.bundle.uthreads[w.i].lame_count = w.v]
    [] w.w = "used++"     -> [k EXCEPT !.bundle.used = @ + 1]
    [] w.w = "used--"     -> [k EXCEPT !.bundle.used = @ - 1]
    [] w.w = "used"       -> [k EXCEPT !.bundle.used = w.v]
    [] w.w = "active"     -> [k EXCEPT !.bundle.active = w.v]
    [] w.w = "spill"      -> IF k.bundle.uthreads[w.i].present THEN SpillSlot(k, w.i) ELSE k
    [] OTHER              -> k

RaceFrame == <<lame_bundle, cfg_lame_bundle_size, rq, rq_head, rq_tail, rq_overflow,
               lock, thread_ready, thread_running, self, preempt_cnt, fault, rr, boot>>

\* the runtime enters a membership operation that has stores to make
RaceBegin(name, writes) ==
  /\ ~fault
  /\ ~lock
  /\ pending = <<>>
  /\ writes # <<>>
  /\ pending' = writes
  /\ op' = OpRec(name, NULL, FALSE, 0, 0, lame_bundle)
  /\ hist' = ZeroBundle
  /\ UNCHANGED RaceFrame

RaceAdd ==
  \E th \in SpecThreadSet \ Queued, set_active \in BOOLEAN :
    RaceBegin("add_enter", AddWrites(lame_bundle, th, set_active))

RaceRemove ==
  \E th \in SpecThreadSet :
    /\ RemoveScan(lame_bundle, th, 0) # -1
    /\ RaceBegin("remove_enter", ClearWrites(RemoveScan(lame_bundle, th, 0)))

RaceRemoveByIndex ==
  \E index \in 0..(MaxCfgSize - 1) :
    /\ index < lame_bundle.size
    /\ lame_bundle.uthreads[index].present
    /\ RaceBegin("remove_by_index_enter", ClearWrites(index))

RaceRemoveAtActive ==
  /\ lame_bundle.uthreads[lame_bundle.active].present
  /\ RaceBegin("remove_at_active_enter", ClearWrites(lame_bundle.active))

RaceDismantle ==
  /\ rq_head + Len(rq_overflow) + lame_bundle.used <= MaxRqHead
  /\ RaceBegin("dismantle_enter", DismantleWrites(lame_bundle))

\* the next store of the operation in progress, made when its context runs
RaceStep ==
  /\ ~fault
  /\ pending # <<>>
  /\ Head(pending).owner = self
  /\ LET w == Head(pending)
     IN  /\ SetKThread(Store(KThread, w))
         /\ lock' = IF w.w = "spin_lock" THEN TRUE
                    ELSE IF w.w = "spin_unlock" THEN FALSE ELSE lock
         /\ op' = OpRec("store", NULL, FALSE, w.i, 0, lame_bundle)
  /\ pending' = Tail(pending)
  /\ hist' = ZeroBundle
  /\ UNCHANGED <<cfg_lame_bundle_size, rq_tail, self, preempt_cnt, fault, rr, boot>>

\* the scheduler takes a thread from rq between membership operations
RaceRqPop == pending = <<>> /\ RqPop

RaceNext ==
  \/ RaceAdd
  \/ RaceRemove
  \/ RaceRemoveByIndex
  \/ RaceRemoveAtActive
  \/ RaceDismantle
  \/ RaceStep
  \/ LameHandle
  \/ RaceRqPop

RaceSpec == Init /\ [][RaceNext]_vars

\* ---- every pointer value as argument: AddAnySpec ----------------------------
\* lame_bundle_add_uthread and lame_bundle_remove_uthread take a thread_t *
\* and do not look at it before the scan: here the argument is any of the
\* thread frames of Spec or NULL.
AddAnyNext ==
  \/ AddOf(SpecThreadSet \cup {NULL})
  \/ RemoveOf(SpecThreadSet \cup {NULL})
  \/ RemoveByIndex
  \/ RemoveAtActive
  \/ GetNext

AddAnySpec == Init /\ [][AddAnyNext]_vars

\* ---- the spill into a run queue in use: SpillSpec ----------------------------
\* sequences of different threads of T
DistinctSeqs(T) ==
  {q \in UNION {[1..n -> T] : n \in 0..Cardinality(T)} :
     \A i, j \in 1..Len(q) : i # j => q[i] # q[j]}

\* The run queue as producer and consumer leave it: the first a threads of q
\* are in rq from index tail on, the others wait on the overflow list.
QueueOf(q, a, tail) ==
  [rq |-> [n \in 0..(SpillRqSize - 1) |->
             IF \E j \in 1..a : (tail + j - 1) % SpillRqSize = n
             THEN q[CHOOSE j \in 1..a : (tail + j - 1) % SpillRqSize = n]
             ELSE NULL],
   rq_head |-> tail + a, rq_tail |-> tail,
   rq_overflow |-> SubSeq(q, a + 1, Len(q))]

\* a bundle of the configured size and, in the run queue, threads that are
\* not its members
SpillInit ==
  /\ cfg_lame_bundle_size \in 1..LAME_BUNDLE_SIZE_MAX
  /\ lame_bundle \in {b \in ReachableBundles(cfg_lame_bundle_size) :
                         /\ b.size = cfg_lame_bundle_size /\ ~b.enabled
                         /\ b.total_lames = 0 /\ b.total_xsave_lames = 0}
  /\ \E q \in DistinctSeqs(Threads \ Members(lame_bundle)) :
       \E a \in 0..SpillRqSize, tail \in 0..1 :
         /\ a <= Len(q)
         /\ rq = QueueOf(q, a, tail).rq
         /\ rq_head = tail + a
         /\ rq_tail = tail
         /\ rq_overflow = SubSeq(q, a + 1, Len(q))
  /\ thread_ready = [t \in Threads |-> t \notin Members(lame_bundle)]
  /\ thread_running = [t \in Threads |-> t \in Members(lame_bundle)]
  /\ lock = FALSE
  /\ self = NULL
  /\ preempt_cnt = 0
  /\ fault = FALSE
  /\ op = OpRec("start", NULL, FALSE, 0, 0, lame_bundle)
  /\ hist = lame_bundle
  /\ rr = <<>>
  /\ boot = NoBoot
  /\ pending = <<>>

\* lame_sched_bundle_dismantle, once
SpillDismantle ==
  /\ ~lock
  /\ op.name = "start"
  /\ SetKThread(lame_sched_bundle_dismantle(KThread))
  /\ op' = OpRec("dismantle", NULL, FALSE, lame_bundle.active, 0, lame_bundle)
  /\ UNCHANGED <<cfg_lame_bundle_size, rq_tail, lock, self, preempt_cnt, fault,
                 hist, rr, boot, pending>>

\* lame_sched_bundle_dismantle_nolock, once, by a caller that took the lock
SpillDismantleNolock ==
  /\ lock
  /\ op.name = "runtime"
  /\ SetKThread(lame_sched_bundle_dismantle_nolock(KThread))
  /\ op' = OpRec("dismantle_nolock", NULL, FALSE, lame_bundle.active, 0, lame_bundle)
  /\ UNCHANGED <<cfg_lame_bundle_size, rq_tail, lock, self, preempt_cnt, fault,
                 hist, rr, boot, pending>>

\* the caller of the nolock variant takes the lock before the call and
\* releases it afterwards
SpillLock ==
  /\ ~lock
  /\ op.name = "start"
  /\ lock' = TRUE
  /\ op' = OpRec("runtime", NULL, FALSE, 0, 0, lame_bundle)
  /\ UNCHANGED <<lame_bundle, cfg_lame_bundle_size, rq, rq_head, rq_tail, rq_overflow,
                 thread_ready, thread_running, self, preempt_cnt, fault, hist, rr,
                 boot, pending>>

SpillUnlock ==
  /\ lock
  /\ op.name = "dismantle_nolock"
  /\ lock' = FALSE
  /\ UNCHANGED <<lame_bundle, cfg_lame_bundle_size, rq, rq_head, rq_tail, rq_overflow,
                 thread_ready, thread_running, self, preempt_cnt, fault, op, hist, rr,
                 boot, pending>>

\* the scheduler consumes the run queue; rr collects the threads in the order
\* it gets them
SpillPop ==
  /\ op.name \in {"dismantle", "dismantle_nolock", "pop"}
  /\ ~lock
  /\ rq_head # rq_tail
  /\ LET th == rq[rq_tail % RqSize(rq)]
         k == drain_overflow([KThread EXCEPT !.rq[rq_tail % RqSize(rq)] = NULL,
                                             !.rq_tail = rq_tail + 1])
     IN  /\ rq' = k.rq
         /\ rq_head' = k.rq_head
         /\ rq_tail' = k.rq_tail
         /\ rq_overflow' = k.rq_overflow
         /\ thread_ready' = [thread_ready EXCEPT ![th] = FALSE]
         /\ thread_running' = [thread_running EXCEPT ![th] = TRUE]
         /\ rr' = Append(rr, th)
         /\ op' = [op EXCEPT !.name = "pop", !.th = th]
  /\ UNCHANGED <<lame_bundle, cfg_lame_bundle_size, lock, self, preempt_cnt, fault,
                 hist, boot, pending>>

SpillNext ==
  \/ SpillDismantle
  \/ SpillLock
  \/ SpillDismantleNolock
  \/ SpillUnlock
  \/ SpillPop

SpillSpec == SpillInit /\ [][SpillNext]_vars

\* ---- the dismantle step by step beside the consumers: StepSpec ---------------
\* A dismantle is the sequence of its steps in program order; pending holds
\* the steps still to make.  fn is the function making the step, i the slot
\* and v the value of the local rq_tail once load_acquire has read it.
Step(fn, w, i) == [fn |-> fn, w |-> w, i |-> i, v |-> 0]

\* mutant of SlotSteps: the slot is left as it was
SlotStepsKeepSlot(fn, i) ==
  <<Step(fn, "ready", i), Step(fn, "load_rq_tail", i), Step(fn, "enqueue", i)>>

\* the loop body of __lame_bundle_to_rq for an occupied slot i: the thread's
\* flags, the read of rq_tail, the branch with its stores, the slot's reset
SlotSteps(fn, i) ==
  <<Step(fn, "ready", i), Step(fn, "load_rq_tail", i), Step(fn, "enqueue", i),
    Step(fn, "clear", i)>>

\* __lame_bundle_to_rq from slot i on; nothing else writes the bundle while
\* it runs, so present is read here
RECURSIVE SpillSteps(_, _, _)
SpillSteps(fn, b, i) ==
  IF i >= b.size THEN <<>>
  ELSE (IF b.uthreads[i].present THEN SlotSteps(fn, i) ELSE <<>>)
       \o SpillSteps(fn, b, i + 1)

ResetSteps(fn) == <<Step(fn, "used", 0), Step(fn, "active", 0)>>

\* mutant of DismantleSteps: the lock is released before the spill
DismantleStepsUnlockEarly(b) ==
  (IF b.used >= 1
   THEN <<Step("dismantle", "spin_lock", 0), Step("dismantle", "spin_unlock", 0)>>
        \o SpillSteps("dismantle", b, 0)
   ELSE <<>>)
  \o ResetSteps("dismantle")

\* lame_sched_bundle_dismantle
DismantleSteps(b) ==
  (IF b.used >= 1
   THEN <<Step("dismantle", "spin_lock", 0)>>
        \o SpillSteps("dismantle", b, 0)
        \o <<Step("dismantle", "spin_unlock", 0)>>
   ELSE <<>>)
  \o ResetSteps("dismantle")

\* lame_sched_bundle_dismantle_nolock after its assertion
DismantleNolockSteps(b) ==
  (IF b.used >= 1 THEN SpillSteps("dismantle_nolock", b, 0) ELSE <<>>)
  \o ResetSteps("dismantle_nolock")

\* the branch taken with the value tail read from rq_tail
OverflowBranch(k, tail) == k.rq_head - tail >= RqSize(k.rq) \/ k.rq_overflow # <<>>

\* assert(k->rq_head - rq_tail <= RUNTIME_RQ_SIZE) of the overflow branch
AssertRqFits(k, tail) == OverflowBranch(k, tail) => k.rq_head - tail <= RqSize(k.rq)

\* mutant of Enqueue: rq counts as full one entry late
EnqueueFullLate(k, th, tail) ==
  IF k.rq_head - tail > RqSize(k.rq) \/ k.rq_overflow # <<>>
  THEN drain_overflow([k EXCEPT !.rq_overflow = Append(@, th)])
  ELSE [k EXCEPT !.rq[k.rq_head % RqSize(k.rq)] = th, !.rq_head = k.rq_head + 1]

\* the two branches of __lame_bundle_to_rq
Enqueue(k, th, tail) ==
  IF OverflowBranch(k, tail)
  THEN drain_overflow([k EXCEPT !.rq_overflow = Append(@, th)])
  ELSE [k EXCEPT !.rq[k.rq_head % RqSize(k.rq)] = th, !.rq_head = k.rq_head + 1]

\* the worker after step w
StepOf(k, w) ==
  LET th == k.bundle.uthreads[w.i].uthread
  IN  CASE w.w = "ready"   -> [k EXCEPT !.thread_ready[th] = TRUE,
                                        !.thread_running[th] = FALSE]
        [] w.w = "enqueue" -> Enqueue(k, th, w.v)
        [] w.w = "clear"   -> [k EXCEPT !.bundle.uthreads[w.i] = EmptyWrapper]
        [] w.w = "used"    -> [k EXCEPT !.bundle.used = 0]
        [] w.w = "active"  -> [k EXCEPT !.bundle.active = 0]
        [] OTHER           -> k

StepInit ==
  /\ SpillInit
  /\ lame_bundle.active = 0

StepFrame == <<lame_bundle, cfg_lame_bundle_size, rq, rq_head, rq_tail, rq_overflow,
               thread_ready, thread_running, self, preempt_cnt, hist, rr, boot>>

\* lame_sched_bundle_dismantle is called and reads used
StepDismantleEnter ==
  /\ ~fault
  /\ ~lock
  /\ op.name = "start"
  /\ pending' = DismantleSteps(lame_bundle)
  /\ op' = OpRec("dismantle_enter", NULL, FALSE, 0, 0, lame_bundle)
  /\ UNCHANGED <<StepFrame, lock, fault>>

\* lame_sched_bundle_dismantle_nolock is called, by a caller that holds the
\* lock or by one that does not, and assert_spin_lock_held stops the latter
StepDismantleNolockEnter ==
  /\ ~fault
  /\ op.name \in {"start", "runtime"}
  /\ pending = <<>>
  /\ fault' = ~lock
  /\ pending' = IF lock THEN DismantleNolockSteps(lame_bundle) ELSE <<>>
  /\ op' = OpRec("dismantle_nolock_enter", NULL, FALSE, 0, 0, lame_bundle)
  /\ UNCHANGED <<StepFrame, lock>>

\* the next step of the dismantle in progress
StepStore ==
  /\ ~fault
  /\ pending # <<>>
  /\ LET w == Head(pending)
     IN  /\ w.w = "spin_lock" => ~lock
         /\ lock' = IF w.w = "spin_lock" THEN TRUE
                    ELSE IF w.w = "spin_unlock" THEN FALSE ELSE lock
         /\ fault' = (w.w = "enqueue" /\ ~AssertRqFits(KThread, w.v))
         /\ SetKThread(StepOf(KThread, w))
         /\ pending' = IF w.w = "load_rq_tail"
                       THEN <<[pending[2] EXCEPT !.v = rq_tail]>> \o Tail(Tail(pending))
                       ELSE Tail(pending)
         /\ op' = OpRec(w.fn \o "_step", lame_bundle.uthreads[w.i].uthread, FALSE, w.i, 0,
                        lame_bundle)
  /\ UNCHANGED <<cfg_lame_bundle_size, rq_tail, self, preempt_cnt, hist, rr, boot>>

\* the caller of the nolock variant releases the lock after the call
StepUnlock ==
  /\ lock
  /\ pending = <<>>
  /\ op.name = "dismantle_nolock_step"
  /\ lock' = FALSE
  /\ op' = OpRec("runtime", NULL, FALSE, 0, 0, lame_bundle)
  /\ UNCHANGED <<StepFrame, fault, pending>>

\* a consumer that takes the worker lock, dequeues and releases the lock (the
\* local scheduler or a stealing worker); its critical section is one step
StepPopLocked ==
  /\ ~fault
  /\ ~lock
  /\ rq_head # rq_tail
  /\ LET th == rq[rq_tail % RqSize(rq)]
         k == drain_overflow([KThread EXCEPT !.rq_tail = rq_tail + 1])
     IN  /\ rq' = k.rq
         /\ rq_head' = k.rq_head
         /\ rq_tail' = k.rq_tail
         /\ rq_overflow' = k.rq_overflow
         /\ rr' = Append(rr, th)
         /\ op' = [op EXCEPT !.name = "pop_locked", !.th = th]
  /\ UNCHANGED <<lame_bundle, cfg_lame_bundle_size, lock, thread_ready, thread_running,
                 self, preempt_cnt, fault, hist, boot, pending>>

\* a consumer that advances rq_tail at any moment, the lock held or not
StepAdvanceTail ==
  /\ ~fault
  /\ rq_head # rq_tail
  /\ rq_tail' = rq_tail + 1
  /\ rr' = Append(rr, rq[rq_tail % RqSize(rq)])
  /\ op' = [op EXCEPT !.name = "advance_tail", !.th = rq[rq_tail % RqSize(rq)]]
  /\ UNCHANGED <<lame_bundle, cfg_lame_bundle_size, rq, rq_head, rq_overflow, lock,
                 thread_ready, thread_running, self, preempt_cnt, fault, hist, boot,
                 pending>>

StepNext ==
  \/ StepDismantleEnter
  \/ SpillLock
  \/ StepDismantleNolockEnter
  \/ StepStore
  \/ StepUnlock
  \/ StepPopLocked
  \/ StepAdvanceTail

StepSpec == StepInit /\ [][StepNext]_vars

\* ---- the return path of the PMU handler: BretSpec ----------------------------
\* mutant of lame_handle_bret_slowpath: total_lames counts every call
lame_handle_bret_slowpath_count_all(b, preempt, do_cede) ==
  IF preempt # 0 THEN [bundle |-> [b EXCEPT !.total_lames = @ + 1], calls |-> <<>>]
  ELSE [bundle |-> [b EXCEPT !.total_lames = @ + 1],
        calls |-> <<"getk", "xsavec64">>
                  \o (IF do_cede THEN <<"thread_cede">> ELSE <<"putk", "thread_yield">>)
                  \o <<"xrstor64">>]

\* lame_handle_bret_slowpath with preempt_cnt = preempt and do_cede the
\* value of preempt_cede_needed(k); calls lists the calls it makes, in order
lame_handle_bret_slowpath(b, preempt, do_cede) ==
  IF preempt # 0 THEN [bundle |-> b, calls |-> <<>>]
  ELSE [bundle |-> [b EXCEPT !.total_lames = @ + 1],
        calls |-> <<"getk", "xsavec64">>
                  \o (IF do_cede THEN <<"thread_cede">> ELSE <<"putk", "thread_yield">>)
                  \o <<"xrstor64">>]

\* any bundle, preemption enabled or disabled
BretInit ==
  /\ cfg_lame_bundle_size \in 1..MaxCfgSize
  /\ lame_bundle \in ReachableBundles(cfg_lame_bundle_size)
  /\ preempt_cnt \in 0..1
  /\ hist = lame_bundle
  /\ rr = <<>>
  /\ boot = NoBoot
  /\ op = OpRec("start", NULL, FALSE, 0, 0, lame_bundle)
  /\ rq = [n \in 0..(RUNTIME_RQ_SIZE - 1) |-> NULL]
  /\ rq_head = 0
  /\ rq_tail = 0
  /\ rq_overflow = <<>>
  /\ lock = FALSE
  /\ thread_ready = [t \in Threads |-> FALSE]
  /\ thread_running = [t \in Threads |-> TRUE]
  /\ self = NULL
  /\ fault = FALSE
  /\ pending = <<>>

\* one return through the slow path; rr holds the calls it made and op.
\* set_active what preempt_cede_needed answered
BretSlowpath ==
  \E do_cede \in BOOLEAN :
    /\ preempt_cnt = 0 => lame_bundle.total_lames < MaxLames
    /\ LET r == lame_handle_bret_slowpath(lame_bundle, preempt_cnt, do_cede)
       IN  /\ lame_bundle' = r.bundle
           /\ rr' = r.calls
           /\ op' = OpRec("bret_slowpath", NULL, do_cede, 0, 0, lame_bundle)
    /\ UNCHANGED <<cfg_lame_bundle_size, rq, rq_head, rq_tail, rq_overflow, lock,
                   thread_ready, thread_running, self, preempt_cnt, fault, hist, boot,
                   pending>>

BretSpec == BretInit /\ [][BretSlowpath]_vars

\* ---- gpr_bitmap_init on its own: BitmapSpec ----------------------------------
RECURSIVE Pow2(_)
Pow2(n) == IF n = 0 THEN 1 ELSE 2 * Pow2(n - 1)

\* x >> f and x & ((1UL << f) - 1) on values far below 2^64
Shr(x, f) == x \div Pow2(f)
LowBits(x, f) == x % Pow2(f)

\* the text mapping starts at an address that is a multiple of every page
\* size (get_main_exec_text_range reads it from /proc/self/maps)
TextBase == 2 * Pow2(MaxPgszFactor + 1)

\* the pages the loop body marks for the range [s, e): none when e <= s
MarkedPages(s, e, f, text_start, text_end, num_pages) ==
  IF e <= s THEN {}
  ELSE LET e1 == IF e + text_start >= text_end THEN text_end ELSE e
           start_idx == IF LowBits(s, f) # 0 THEN Shr(s, f) + 1 ELSE Shr(s, f)
           end_idx0 == IF LowBits(e1, f) # 0 THEN Shr(e1, f) ELSE Shr(e1, f) - 1
           end_idx == IF end_idx0 >= num_pages THEN num_pages - 1 ELSE end_idx0
       IN  start_idx..end_idx

\* gpr_bitmap_init once the sidecar file and the text range are read: the
\* bitmap it publishes and the indices it wrote
gpr_bitmap_init(env) ==
  LET f == env.pgsz_factor
      text_len == IF env.text_end > env.text_start THEN env.text_end - env.text_start ELSE 0
      num_pages == Shr(text_len, f) + 1
      written == UNION {MarkedPages(env.sessions[i][1], env.sessions[i][2], f,
                                    env.text_start, env.text_end, num_pages) :
                        i \in 1..Len(env.sessions)}
  IN  IF env.calloc_ok
      THEN [ret |-> 0, gpr_bitmap_size |-> num_pages, written |-> written,
            gpr_bitmap |-> [p \in 0..(num_pages - 1) |-> IF p \in written THEN 1 ELSE 0]]
      ELSE [ret |-> -EINVAL, gpr_bitmap_size |-> 0, written |-> {}, gpr_bitmap |-> <<>>]

\* the sidecar files: up to MaxSessions pairs of offsets
SessionFiles ==
  UNION {[1..n -> (0..MaxOffset) \X (0..MaxOffset)] : n \in 0..MaxSessions}

BitmapEnvs ==
  {[pgsz_factor |-> f, text_start |-> TextBase,
    text_end |-> TextBase + n * Pow2(MaxPgszFactor), sessions |-> ss, calloc_ok |-> ok] :
     f \in 0..MaxPgszFactor, n \in 1..MaxTextPages, ss \in SessionFiles, ok \in BOOLEAN}

BitmapInit ==
  /\ cfg_lame_bundle_size \in {1}
  /\ boot \in {[done |-> FALSE, env |-> e,
                out |-> [ret |-> 0, gpr_bitmap_size |-> 0, written |-> {},
                         gpr_bitmap |-> <<>>]] : e \in BitmapEnvs}
  /\ lame_bundle = ZeroBundle
  /\ hist = ZeroBundle
  /\ rr = <<>>
  /\ op = OpRec("start", NULL, FALSE, 0, 0, lame_bundle)
  /\ RestAtInit

GprBitmapInit ==
  /\ ~boot.done
  /\ boot' = [boot EXCEPT !.done = TRUE, !.out = gpr_bitmap_init(boot.env)]
  /\ UNCHANGED <<lame_bundle, cfg_lame_bundle_size, rq, rq_head, rq_tail, rq_overflow,
                 lock, thread_ready, thread_running, self, preempt_cnt, fault, op,
                 hist, rr, pending>>

BitmapSpec == BitmapInit /\ [][GprBitmapInit]_vars

\* ---- type correctness -----------------------------------------------------
TypeOK ==
  /\ lame_bundle.size \in 0..LAME_BUNDLE_SIZE_MAX
  /\ lame_bundle.active \in Slots
  /\ \A i \in Slots : lame_bundle.uthreads[i].uthread \in Threads \cup {NULL}
  /\ rq_tail <= rq_head
  /\ rq_head - rq_tail <= RqSize(rq)
  /\ self \in Threads \cup {NULL}
  /\ preempt_cnt \in 0..1

\* ---- properties ------------------------------------------------------------
\* what the properties below say of a bundle, stated without the scans
Occupied(b, i) == i < b.size /\ b.uthreads[i].present

HasEmptySlot(b) == \E i \in Slots : i < b.size /\ ~b.uthreads[i].present

LowestEmptySlot(b) ==
  CHOOSE i \in Slots : /\ i < b.size /\ ~b.uthreads[i].present
                       /\ \A j \in Slots : j < i => b.uthreads[j].present

FirstSlotHolding(b, th) ==
  CHOOSE i \in Slots : /\ Occupied(b, i) /\ b.uthreads[i].uthread = th
                       /\ \A j \in Slots : j < i => ~(Occupied(b, j) /\ b.uthreads[j].uthread = th)

\* two bundles agree on everything but the counters
SameMembership(b1, b2) ==
  /\ \A i \in Slots : /\ b1.uthreads[i].present = b2.uthreads[i].present
                      /\ b1.uthreads[i].uthread = b2.uthreads[i].uthread
  /\ b1.used = b2.used
  /\ b1.active = b2.active
  /\ b1.size = b2.size
  /\ b1.enabled = b2.enabled

IsDismantle(o) == o.name \in {"dismantle", "dismantle_nolock"}

\* C1: in every reachable state used is the number of occupied slots in
\* [0, size), and used <= size.
C1_UsedCountsPresent ==
  /\ lame_bundle.used = PresentCount(lame_bundle)
  /\ lame_bundle.used <= lame_bundle.size

\* C1 witness: a removal by index has left a hole at slot 0 below a member
C1_Witness ==
  /\ op.name = "remove_by_index" /\ op.ret = 0 /\ op.index = 0
  /\ op.used0 = 2 /\ lame_bundle.used = 1
  /\ ~lame_bundle.uthreads[0].present /\ lame_bundle.uthreads[1].present

\* C2 (as claimed): a handler invocation on a bundle that is not dynamically
\* enabled, or whose size is <= 1, switches nothing: active, __self and
\* total_lames keep their values and lame_handle returns with preemption
\* re-enabled.
C2_GateOffNoSwitch ==
  [][(op'.name = "handle" /\ (~lame_bundle.enabled \/ lame_bundle.size <= 1))
       => /\ lame_bundle'.active = lame_bundle.active
          /\ self' = self
          /\ lame_bundle'.total_lames = lame_bundle.total_lames
          /\ op'.preempt_ret = preempt_cnt]_vars

\* C3: a handler invocation with used <= 1 switches nothing: the bundle (active,
\* every slot, total_lames) and __self are unchanged and lame_handle itself
\* re-enables preemption before it returns.
C3_SingleMemberNoSwitch ==
  [][(op'.name = "handle" /\ lame_bundle.used <= 1)
       => /\ lame_bundle' = lame_bundle
          /\ self' = self
          /\ ~op'.set_active
          /\ op'.preempt_ret = preempt_cnt
          /\ preempt_cnt' = preempt_cnt]_vars

\* C3 witness: the handler ran on an enabled bundle of size >= 2 with one member
C3_Witness ==
  /\ op.name = "handle" /\ op.used0 = 1 /\ ~op.set_active
  /\ lame_bundle.enabled /\ lame_bundle.size >= 2

\* C4: either dismantle leaves used = 0, active = 0, no occupied slot, and
\* every thread that was in a slot queued exactly once (rq or overflow list),
\* with thread_ready = true and thread_running = false.
C4_DismantleSpillsAll ==
  [][IsDismantle(op')
       => /\ lame_bundle'.used = 0
          /\ lame_bundle'.active = 0
          /\ \A i \in Slots : ~lame_bundle'.uthreads[i].present
          /\ \A t \in Members(lame_bundle) :
               /\ QueuedCount(rq', rq_head', rq_tail', rq_overflow', t) = 1
               /\ thread_ready'[t]
               /\ ~thread_running'[t]]_vars

\* C4 witness: a dismantle of a bundle of at least two members, now queued
C4_Witness ==
  /\ IsDismantle(op) /\ op.used0 >= 2
  /\ rq_head - rq_tail >= 1
  /\ Cardinality(Queued) >= 2

\* C5: add of a thread that is in no occupied slot, with an empty slot in
\* [0, size), returns 0, fills the lowest-index empty slot i (present, thread,
\* counters 0), increments used, sets active = i iff set_active, and changes
\* nothing else.
C5_AddFillsLowestEmpty ==
  [][(op'.name = "add" /\ op'.th \notin Members(lame_bundle) /\ HasEmptySlot(lame_bundle))
       => LET i == LowestEmptySlot(lame_bundle)
          IN  /\ op'.ret = 0
              /\ lame_bundle' = [lame_bundle EXCEPT
                   !.uthreads[i] = [uthread |-> op'.th, present |-> TRUE,
                                    cycles |-> 0, lame_count |-> 0],
                   !.used = lame_bundle.used + 1,
                   !.active = IF op'.set_active THEN i ELSE lame_bundle.active]]_vars

\* C5 witness: an add with set_active filled the hole at slot 0 of a bundle
\* whose slot 1 is occupied
C5_Witness ==
  /\ op.name = "add" /\ op.ret = 0 /\ op.set_active
  /\ op.used0 = 1 /\ lame_bundle.used = 2
  /\ lame_bundle.uthreads[0].present /\ lame_bundle.uthreads[0].uthread = op.th
  /\ lame_bundle.uthreads[1].present
  /\ lame_bundle.active = 0

C7_FullAddNoSpace ==
  [][(op'.name = "add" /\ ~HasEmptySlot(lame_bundle))
       => /\ op'.ret = -ENOSPC
          /\ lame_bundle' = lame_bundle]_vars

\* C8: remove(t) clears the first occupied slot holding t (present = false,
\* thread = NULL), decrements used, changes nothing else and returns 0; when
\* no occupied slot holds t it returns -ENOENT and changes nothing.
C8_RemoveClearsFirst ==
  [][op'.name = "remove"
       => IF op'.th \in Members(lame_bundle)
          THEN LET i == FirstSlotHolding(lame_bundle, op'.th)
               IN  /\ op'.ret = 0
                   /\ lame_bundle' = [lame_bundle EXCEPT
                        !.uthreads[i].present = FALSE,
                        !.uthreads[i].uthread = NULL,
                        !.used = lame_bundle.used - 1]
          ELSE /\ op'.ret = -ENOENT
               /\ lame_bundle' = lame_bundle]_vars

\* C8 witness: the member of the active slot 1 was removed from a bundle of two
C8_Witness ==
  /\ op.name = "remove" /\ op.ret = 0
  /\ op.used0 = 2 /\ lame_bundle.used = 1
  /\ lame_bundle.active = 1
  /\ ~lame_bundle.uthreads[1].present /\ lame_bundle.uthreads[1].uthread = NULL

\* C9 (as claimed): whenever add(t, false) returned 0, the remove(t) that
\* directly follows returns 0 and leaves the bundle as it was before the add.
C9_AddRemoveRoundTrip ==
  op.rt = 2 => /\ op.ret = 0
               /\ lame_bundle.used = hist.used
               /\ SameMembership(lame_bundle, hist)

\* C9 (amended): the same for a thread t that was in no occupied slot before
\* the add.
C9_AddRemoveRoundTripNew ==
  (op.rt = 2 /\ op.th \notin Members(hist))
    => /\ op.ret = 0
       /\ lame_bundle.used = hist.used
       /\ SameMembership(lame_bundle, hist)

\* C9 witness: a new thread was added to a bundle of one member with active
\* = 1 and removed again
C9_Witness ==
  /\ op.rt = 2 /\ op.th \notin Members(hist)
  /\ hist.used = 1 /\ hist.active = 1

\* C10: no thread frame is held by two occupied slots of the bundle.
C10_NoThreadTwice ==
  \A i, j \in Slots :
    (i # j /\ Occupied(lame_bundle, i) /\ Occupied(lame_bundle, j))
      => lame_bundle.uthreads[i].uthread # lame_bundle.uthreads[j].uthread

\* C10 witness: a member was added again to a bundle with an empty slot
C10_Witness ==
  /\ op.name = "add" /\ op.ret = 0
  /\ op.th \in Members(lame_bundle)
  /\ lame_bundle.used = op.used0
  /\ lame_bundle.used >= 1
  /\ HasEmptySlot(lame_bundle)

\* number of positions from active to slot i going forward cyclically: 1 for
\* the slot after active, size for the active slot itself
CyclicDist(b, i) == ((i + b.size - b.active - 1) % b.size) + 1

\* the occupied slot nearest after active in cyclic order
NextOccupied(b) ==
  CHOOSE i \in Slots : /\ Occupied(b, i)
                       /\ \A j \in Slots : Occupied(b, j) => CyclicDist(b, i) <= CyclicDist(b, j)

\* C11: next on a bundle with used >= 1 returns the thread of the first
\* occupied slot in the order (active+1) mod size, (active+2) mod size, ...,
\* active, and sets active to that slot; on an empty bundle it returns NULL
\* and leaves active unchanged.
C11_NextScansFromActive ==
  [][op'.name = "next"
       => IF lame_bundle.used >= 1
          THEN LET i == NextOccupied(lame_bundle)
               IN  /\ op'.th = lame_bundle.uthreads[i].uthread
                   /\ op'.th # NULL
                   /\ lame_bundle'.active = i
          ELSE /\ op'.th = NULL
               /\ lame_bundle'.active = lame_bundle.active]_vars

\* C11 witness: next on a bundle of size 2 whose only member sits in the
\* active slot 1: slot 0 was examined first, the active slot last
C11_Witness ==
  /\ op.name = "next" /\ op.th # NULL
  /\ op.index = 1 /\ lame_bundle.active = 1
  /\ lame_bundle.size = 2 /\ lame_bundle.used = 1

\* the k-th occupied slot of b after active in cyclic order (k = 1, 2, ...)
RankedSlot(b, k) ==
  CHOOSE i \in Slots :
    /\ Occupied(b, i)
    /\ Cardinality({j \in Slots : Occupied(b, j) /\ CyclicDist(b, j) < CyclicDist(b, i)}) = k - 1

\* C12 (RRSpec): with membership unchanged and used = n >= 1, the k-th of any
\* number of consecutive next calls returns the member in the
\* (((k-1) mod n) + 1)-th occupied slot after the initial active in cyclic
\* slot order: never NULL, always a current member, and the first n calls
\* return every member exactly once.
C12_RoundRobinVisitsEach ==
  hist.used >= 1
    => LET n == hist.used
       IN  /\ \A k \in 1..Len(rr) :
                /\ rr[k] # NULL
                /\ rr[k] \in Members(lame_bundle)
                /\ rr[k] = hist.uthreads[RankedSlot(hist, ((k - 1) % n) + 1)].uthread
           /\ Members(lame_bundle) = Members(hist)
           /\ Len(rr) >= n
                => /\ {rr[k] : k \in 1..n} = Members(hist)
                   /\ \A k1, k2 \in 1..n : k1 # k2 => rr[k1] # rr[k2]

\* C12 witness: two members in slots 0 and 1, active = 0 at the start, and
\* four calls have returned slot 1, slot 0, slot 1, slot 0
C12_Witness ==
  /\ Len(rr) = 4 /\ hist.used = 2 /\ hist.active = 0
  /\ rr[1] = hist.uthreads[1].uthread /\ rr[2] = hist.uthreads[0].uthread
  /\ rr[3] = rr[1] /\ rr[4] = rr[2]

\* C13 (as claimed): a next call that returns a thread increments total_lames
\* by 1 and the lame_count of the returned slot by 1; a call that returns NULL
\* increments neither.
C13_NextIncrementsCounters ==
  [][op'.name = "next"
       => IF op'.th # NULL
          THEN /\ lame_bundle'.total_lames = lame_bundle.total_lames + 1
               /\ lame_bundle'.uthreads[lame_bundle'.active].lame_count
                    = lame_bundle.uthreads[lame_bundle'.active].lame_count + 1
          ELSE /\ lame_bundle'.total_lames = lame_bundle.total_lames
               /\ \A i \in Slots : lame_bundle'.uthreads[i].lame_count
                                     = lame_bundle.uthreads[i].lame_count]_vars

\* C14: remove_by_index(i) returns -EINVAL and changes nothing when i >= size;
\* returns -ENOENT and changes nothing when slot i is empty; otherwise it
\* clears slot i (present = false, thread = NULL), decrements used, returns 0
\* and leaves active and every other slot unchanged.
C14_RemoveByIndex ==
  [][op'.name = "remove_by_index"
       => LET i == op'.index
          IN  IF i >= lame_bundle.size
              THEN /\ op'.ret = -EINVAL
                   /\ lame_bundle' = lame_bundle
              ELSE IF ~lame_bundle.uthreads[i].present
              THEN /\ op'.ret = -ENOENT
                   /\ lame_bundle' = lame_bundle
              ELSE /\ op'.ret = 0
                   /\ ~lame_bundle'.uthreads[i].present
                   /\ lame_bundle'.uthreads[i].uthread = NULL
                   /\ lame_bundle'.used = lame_bundle.used - 1
                   /\ lame_bundle'.active = lame_bundle.active
                   /\ \A j \in Slots \ {i} : lame_bundle'.uthreads[j] = lame_bundle.uthreads[j]
                   /\ lame_bundle'.size = lame_bundle.size
                   /\ lame_bundle'.enabled = lame_bundle.enabled]_vars

\* C14 witness: remove_by_index(size) on a bundle of size 1 holding a member:
\* the index lies inside the slot array but is refused
C14_Witness ==
  /\ op.name = "remove_by_index" /\ op.index = lame_bundle.size
  /\ op.ret = -EINVAL
  /\ lame_bundle.size = 1 /\ lame_bundle.used = 1

C16_DismantleFrame ==
  [][IsDismantle(op')
       => /\ lame_bundle'.enabled = lame_bundle.enabled
          /\ lame_bundle'.size = lame_bundle.size
          /\ lame_bundle'.total_cycles = lame_bundle.total_cycles
          /\ lame_bundle'.total_lames = lame_bundle.total_lames
          /\ lame_bundle'.total_xsave_lames = lame_bundle.total_xsave_lames]_vars

\* C16 witness: an enabled bundle of two members that has switched once was
\* dismantled and still shows enabled and both counters at 1
C16_Witness ==
  /\ IsDismantle(op) /\ op.used0 = 2 /\ lame_bundle.used = 0
  /\ lame_bundle.enabled
  /\ lame_bundle.total_lames = 1 /\ lame_bundle.total_xsave_lames = 1

\* C17 (as claimed): a dismantle of an empty bundle (used = 0) changes
\* nothing: every bundle field, active included, the run queue, rq_head, the
\* overflow list and the lock are as before.
C17_DismantleEmptyNoOp ==
  [][(IsDismantle(op') /\ lame_bundle.used = 0)
       => /\ lame_bundle' = lame_bundle
          /\ rq' = rq /\ rq_head' = rq_head /\ rq_tail' = rq_tail
          /\ rq_overflow' = rq_overflow
          /\ lock' = lock]_vars

\* C17 (amended): a dismantle of an empty bundle resets active to 0 and
\* changes nothing else: every other bundle field, the run queue, rq_head,
\* the overflow list and the lock are as before.
C17_DismantleEmptyResetsActive ==
  [][(IsDismantle(op') /\ lame_bundle.used = 0)
       => /\ lame_bundle' = [lame_bundle EXCEPT !.active = 0]
          /\ rq' = rq /\ rq_head' = rq_head /\ rq_tail' = rq_tail
          /\ rq_overflow' = rq_overflow
          /\ lock' = lock
          /\ thread_ready' = thread_ready /\ thread_running' = thread_running]_vars

\* C17 witness: an enabled empty bundle whose active was 1 has been
\* dismantled
C17_Witness ==
  /\ IsDismantle(op) /\ op.used0 = 0 /\ op.index = 1
  /\ lame_bundle.active = 0
  /\ lame_bundle.enabled

\* C18 (as claimed): after init with configured size S, from any prior state,
\* size = S, every slot is empty with its counters 0, used = 0, active = 0,
\* enabled = false, and total_cycles, total_lames and total_xsave_lames are 0.
C18_InitResetsAll ==
  op.name = "init"
    => /\ lame_bundle.size = cfg_lame_bundle_size
       /\ \A i \in Slots : lame_bundle.uthreads[i] = EmptyWrapper
       /\ lame_bundle.used = 0
       /\ lame_bundle.active = 0
       /\ ~lame_bundle.enabled
       /\ lame_bundle.total_cycles = 0
       /\ lame_bundle.total_lames = 0
       /\ lame_bundle.total_xsave_lames = 0

\* C19 (as claimed, InitSpec): init fails when the configured size is 0 or
\* greater than the capacity, and no bundle with size = 0 or size > capacity
\* is produced by init.
C19_InitRejectsBadSize ==
  op.name = "init"
    => /\ (cfg_lame_bundle_size = 0 \/ cfg_lame_bundle_size > LAME_BUNDLE_SIZE_MAX)
            => op.ret # 0
       /\ lame_bundle.size \in 1..LAME_BUNDLE_SIZE_MAX

\* C20: cleanup leaves size = 0, used = 0, active = 0, enabled = false and
\* every slot empty, from any prior state; and while size = 0, that is until
\* init runs again, is_statically_enabled is false, add returns -ENOSPC and
\* next returns NULL, both without changing the bundle.
C20_CleanupDisables ==
  [][/\ op'.name = "cleanup"
          => /\ lame_bundle'.size = 0
             /\ lame_bundle'.used = 0
             /\ lame_bundle'.active = 0
             /\ ~lame_bundle'.enabled
             /\ \A i \in Slots : lame_bundle'.uthreads[i] = EmptyWrapper
     /\ lame_bundle.size = 0
          => /\ ~lame_sched_is_statically_enabled(lame_bundle)
             /\ op'.name = "add" => (op'.ret = -ENOSPC /\ lame_bundle' = lame_bundle)
             /\ op'.name = "next" => (op'.th = NULL /\ lame_bundle' = lame_bundle)
             /\ op'.name # "init" => lame_bundle'.size = 0]_vars

\* C20 witness: a bundle that had switched was cleaned up, and the add that
\* followed at size = 0 was refused
C20_Witness ==
  /\ op.name = "add" /\ op.ret = -ENOSPC
  /\ lame_bundle.size = 0 /\ lame_bundle.used = 0
  /\ lame_bundle.total_xsave_lames = 1

LameInitRan == boot.done /\ "lame_init" \in boot.out.reached

\* C22 (as claimed, BootSpec): registration with a mode other than none and
\* TSC measurement on while the bundle size is not 2 returns -EINVAL and
\* issues no ioctl; with mode none it returns 0 without opening the device
\* or issuing an ioctl.
C22_RegistrationMismatch ==
  LameInitRan
    => /\ (boot.env.register # "none" /\ boot.env.tsc # "off" /\ cfg_lame_bundle_size # 2)
            => /\ boot.out.lame.ret = -EINVAL
               /\ boot.out.lame.ioctl = "none"
       /\ boot.env.register = "none"
            => /\ boot.out.lame.ret = 0
               /\ ~boot.out.lame.opened
               /\ boot.out.lame.ioctl = "none"

\* C23 (BootSpec): a failed registration is not fatal: runtime_init logs the
\* warning and goes on with the remaining phases; if it returns an error, the
\* error is that of a later phase, and if no later phase fails the scheduler
\* starts.
C23_RegistrationNotFatal ==
  (LameInitRan /\ boot.out.lame.ret # 0)
    => /\ boot.out.warned
       /\ "run_init_handlers_global" \in boot.out.reached
       /\ boot.out.returned
            => \E ph \in {"run_init_handlers_global", "global_init_hook",
                           "ioqueues_register_iokernel", "late_init_hook"} :
                 /\ ph \in boot.out.reached
                 /\ boot.env.res[ph] # 0
                 /\ boot.out.ret = boot.env.res[ph]
       /\ (\A ph \in {"run_init_handlers_global", "global_init_hook",
                        "ioqueues_register_iokernel", "late_init_hook"} :
              boot.env.res[ph] = 0)
            => boot.out.started /\ ~boot.out.returned

\* C23 witness: the ioctl was rejected, the warning was logged and the
\* scheduler started all the same
C23_Witness ==
  /\ LameInitRan
  /\ boot.out.lame.ioctl = "LAME_REGISTER_PMU" /\ boot.out.lame.ret = -1
  /\ boot.out.warned /\ boot.out.started /\ ~boot.out.returned

\* the packing next_fast assumes: the occupied slots are exactly [0, used)
Packed(b) == \A i \in Slots : b.uthreads[i].present <=> i < b.used

\* C24: a handler invocation with used > 1 and the gate on switches from the
\* thread in slot active to another member: active becomes the index of an
\* occupied slot other than the previous one, __self is that slot's thread,
\* the frame switch goes from the previous active thread to the new one,
\* total_lames grows by exactly 1, slots and used are unchanged.
C24_HandlerSwitches ==
  [][(op'.name = "handle" /\ lame_bundle.used > 1 /\ lame_bundle.enabled)
       => /\ lame_bundle'.active # lame_bundle.active
          /\ Occupied(lame_bundle', lame_bundle'.active)
          /\ self' = lame_bundle'.uthreads[lame_bundle'.active].uthread
          /\ Occupied(lame_bundle, lame_bundle.active)
          /\ op'.jmp = <<lame_bundle.uthreads[lame_bundle.active].uthread,
                         lame_bundle'.uthreads[lame_bundle'.active].uthread>>
          /\ lame_bundle'.total_lames = lame_bundle.total_lames + 1
          /\ lame_bundle'.uthreads = lame_bundle.uthreads
          /\ lame_bundle'.used = lame_bundle.used]_vars

\* C25: whenever the handler runs with used > 1, the occupied slots are
\* exactly the indices [0, used) and active < used.
C25_PackedAtHandler ==
  [][(op'.name = "handle" /\ lame_bundle.used > 1)
       => (Packed(lame_bundle) /\ lame_bundle.active < lame_bundle.used)]_vars

\* C26: with a fixed membership of n >= 2 threads, whichever slots they
\* occupy, every thread the handler switches to is a member, any n
\* consecutive events switch to n different members, and the process stays
\* alive.
C26_HandlerRoundRobin ==
  hist.used >= 2
    => /\ ~fault
       /\ \A i \in 1..Len(rr) : rr[i] \in Members(hist)
       /\ \A i, j \in 1..Len(rr) : (i < j /\ j - i < hist.used) => rr[i] # rr[j]

\* C27: on a bundle whose occupied slots are exactly [0, used), with
\* used >= 1 and active < used, next_fast and next return the same thread and
\* leave the same active index.
C27_FastEqualsNext ==
  (Packed(lame_bundle) /\ lame_bundle.used >= 1 /\ lame_bundle.active < lame_bundle.used)
    => /\ lame_sched_get_next_idx_uthread(lame_bundle).ret
            = lame_sched_get_next_uthread(lame_bundle).ret
       /\ lame_sched_get_next_idx_uthread(lame_bundle).bundle.active
            = lame_sched_get_next_uthread(lame_bundle).bundle.active

\* C27 witness: next was called on a packed bundle with an empty slot behind
\* its members and wrapped from the last member to slot 0, where next_fast
\* goes too
C27_Witness ==
  /\ Len(rr) = 1 /\ op.name = "next"
  /\ Packed(hist) /\ hist.used >= 2 /\ hist.used < hist.size
  /\ hist.active = hist.used - 1
  /\ lame_bundle.active = 0
  /\ rr[1] = lame_sched_get_next_idx_uthread(hist).ret

\* C28: a handler invocation with used > 1 while slot active is empty, or
\* while no occupied slot can be selected next, aborts the process: it
\* performs no frame switch and stores nothing in __self.
C28_CorruptionFatal ==
  [][(/\ op'.name = "handle" /\ lame_bundle.used > 1
      /\ \/ ~Occupied(lame_bundle, lame_bundle.active)
         \/ \A i \in Slots : i # lame_bundle.active => ~Occupied(lame_bundle, i))
       => /\ fault'
          /\ ~op'.set_active
          /\ op'.jmp = <<NULL, NULL>>
          /\ self' = self]_vars

\* C30: whenever used > 0 (the handler is one step here, so none is in
\* progress in any state), the slot at index active is occupied.
C30_ActiveOccupied ==
  lame_bundle.used > 0 => Occupied(lame_bundle, lame_bundle.active)

\* C29: the handler never runs on a partially updated bundle: whenever it
\* reads the bundle, used equals the number of present slots, and it makes no
\* switch while a membership operation has stores left to make.
C29_HandlerNeverRaces ==
  [][op'.name = "handle"
       => /\ lame_bundle.used = PresentCount(lame_bundle)
          /\ pending # <<>> => ~op'.set_active]_vars

\* C31: active < size in every state between core operations.
C31_ActiveBelowSize == lame_bundle.active < lame_bundle.size

\* C31 (amended): active < size in every state whose size is not 0; after
\* cleanup size is 0 and active is 0.
C31_ActiveBelowSizeOrZero ==
  IF lame_bundle.size = 0 THEN lame_bundle.active = 0
  ELSE lame_bundle.active < lame_bundle.size

\* C31 witness: the handler switched on a full bundle of size 2 whose active
\* slot was the last one, and next_fast wrapped active to 0
C31_Witness ==
  /\ op.name = "handle" /\ op.set_active
  /\ op.used0 = 2 /\ lame_bundle.size = 2
  /\ op.jmp[1] = lame_bundle.uthreads[1].uthread
  /\ lame_bundle.active = 0

\* C32: in every slot of every reachable bundle state, present = false if and
\* only if thread = NULL, for every argument add accepts.
C32_PresentIffThread ==
  \A i \in Slots :
    ~lame_bundle.uthreads[i].present <=> lame_bundle.uthreads[i].uthread = NULL

\* the members of b in increasing slot order
SlotOrder(b) ==
  [n \in 1..b.used |->
     b.uthreads[CHOOSE i \in Slots :
                  /\ Occupied(b, i)
                  /\ Cardinality({j \in Slots : j < i /\ Occupied(b, j)}) = n - 1].uthread]

\* the queued threads in the order the consumer gets them: the window of rq
\* from rq_tail to rq_head, then the overflow list
FifoSeq(q, h, t, ovf) == [n \in 1..(h - t) |-> q[(t + n - 1) % RqSize(q)]] \o ovf

Min(a, b) == IF a < b THEN a ELSE b

\* C33: with an empty overflow list and at least n free entries in rq, a
\* dismantle of a bundle with n members puts them at run-queue positions
\* rq_head, .., rq_head + n - 1 in increasing slot order and advances rq_head
\* by exactly n.
C33_SpillInSlotOrder ==
  [][(/\ IsDismantle(op') /\ rq_overflow = <<>>
      /\ RqSize(rq) - (rq_head - rq_tail) >= lame_bundle.used)
       => /\ rq_head' = rq_head + lame_bundle.used
          /\ rq_overflow' = <<>>
          /\ \A n \in 1..lame_bundle.used :
               rq'[(rq_head + n - 1) % RqSize(rq)] = SlotOrder(lame_bundle)[n]]_vars

\* C33 witness: a bundle with members in slots 0 and 2 and none in slot 1
\* was dismantled into an empty run queue, which now holds both
C33_Witness ==
  /\ IsDismantle(op) /\ hist.used = 2
  /\ hist.uthreads[0].present /\ ~hist.uthreads[1].present
  /\ rq_head - rq_tail = 2 /\ rq_overflow = <<>>
  /\ rq[rq_tail % RqSize(rq)] = hist.uthreads[0].uthread
  /\ rq[(rq_tail + 1) % RqSize(rq)] = hist.uthreads[2].uthread

\* C34: the spill keeps the queue first-in first-out.  After a dismantle the
\* queued threads are those queued before, in their order, then the members
\* in slot order; with an empty overflow list the first members fill the free
\* entries of rq and the others go to the overflow list; whenever a member
\* was spilled, rq is as full as the number of queued threads allows.  The
\* consumer gets the threads in that order.
C34_OverflowKeepsFifo ==
  [][/\ IsDismantle(op')
          => /\ FifoSeq(rq', rq_head', rq_tail', rq_overflow')
                  = FifoSeq(rq, rq_head, rq_tail, rq_overflow) \o SlotOrder(lame_bundle)
             /\ rq_overflow = <<>>
                  => LET free == RqSize(rq) - (rq_head - rq_tail)
                     IN  /\ rq_head' = rq_head + Min(free, lame_bundle.used)
                         /\ rq_overflow' = SubSeq(SlotOrder(lame_bundle), free + 1,
                                                  lame_bundle.used)
             /\ lame_bundle.used > 0
                  => rq_head' - rq_tail'
                       = Min(RqSize(rq), Len(FifoSeq(rq', rq_head', rq_tail', rq_overflow')))
     /\ op'.name = "pop"
          => /\ op'.th = Head(FifoSeq(rq, rq_head, rq_tail, rq_overflow))
             /\ FifoSeq(rq', rq_head', rq_tail', rq_overflow')
                  = Tail(FifoSeq(rq, rq_head, rq_tail, rq_overflow))]_vars

\* C34 witness: rq held one thread and had one entry free; a bundle of two
\* was dismantled, its first member went into rq, its second to the overflow
\* list, and the consumer has taken all three, the earlier one first
C34_Witness ==
  /\ op.name = "pop" /\ hist.used = 2
  /\ Len(rr) = 3
  /\ rr[1] \notin Members(hist)
  /\ rr[2] = SlotOrder(hist)[1] /\ rr[3] = SlotOrder(hist)[2]
  /\ rq_head = rq_tail /\ rq_overflow = <<>>

\* C35: lame_sched_bundle_dismantle makes every write to rq, rq_head and the
\* overflow list with the worker lock held and has released the lock when it
\* returns; lame_sched_bundle_dismantle_nolock stops at its assertion when
\* entered without the lock, and entered with it makes every step with the
\* lock held and leaves it held.
C35_LockDiscipline ==
  [][/\ (pending # <<>> /\ pending' # pending)
          => LET w == Head(pending)
             IN  /\ (w.w = "enqueue" \/ <<rq, rq_head, rq_overflow>>' # <<rq, rq_head, rq_overflow>>)
                      => lock /\ lock'
                 /\ (w.fn = "dismantle" /\ pending' = <<>>) => ~lock'
                 /\ w.fn = "dismantle_nolock" => lock /\ lock'
     /\ op'.name = "dismantle_nolock_enter"
          => /\ lock' = lock
             /\ ~lock => fault' /\ pending' = <<>>
             /\ UNCHANGED <<lame_bundle, rq, rq_head, rq_overflow>>]_vars

\* C35 witness: lame_sched_bundle_dismantle has returned from a bundle of
\* two; both are queued and the lock is free
C35_Witness ==
  /\ op.name = "dismantle_step" /\ pending = <<>>
  /\ hist.used = 2 /\ lame_bundle.used = 0
  /\ \A t \in Members(hist) : QueuedCount(rq, rq_head, rq_tail, rq_overflow, t) = 1
  /\ ~lock

\* the places that hold thread t: a bundle slot, entries of rq, entries of
\* the overflow list
PlaceCount(t) ==
  Cardinality({i \in Slots : Occupied(lame_bundle, i) /\ lame_bundle.uthreads[i].uthread = t})
  + QueuedCount(rq, rq_head, rq_tail, rq_overflow, t)

\* C36: a consumer that dequeues under the worker lock never gets a thread
\* that a bundle slot still records as present, and whenever the lock is free
\* every thread is in at most one of a bundle slot, the run queue and the
\* overflow list.
C36_ExclusiveOwnership ==
  /\ op.name = "pop_locked" => op.th \notin Members(lame_bundle)
  /\ ~lock => \A t \in Threads : PlaceCount(t) <= 1

\* C36 witness: right after the dismantle released the lock, with its resets
\* of used and active still to come, a locked consumer took a former member
C36_Witness ==
  /\ op.name = "pop_locked" /\ op.th \in Members(hist)
  /\ pending # <<>> /\ ~lock
  /\ lame_bundle.used = 2

\* C37: at every step of a dismantle, whatever the occupancy of rq at its
\* start and however a consumer advances rq_tail in between, rq_head - rq_tail
\* stays within the size of rq, the assertion of the overflow branch holds,
\* and no entry of rq that is queued and not yet consumed is overwritten.
C37_RqCapacityKept ==
  [][/\ rq_head' - rq_tail' <= RqSize(rq')
     /\ (pending # <<>> /\ pending' # pending /\ Head(pending).w = "enqueue") => ~fault'
     /\ \A p \in rq_tail'..(rq_head - 1) : rq'[p % RqSize(rq)] = rq[p % RqSize(rq)]]_vars

\* C37 witness: the dismantle has queued an earlier member and read rq_tail
\* for the next one when rq was full; the consumer has advanced rq_tail since
C37_Witness ==
  /\ pending # <<>> /\ Head(pending).w = "enqueue"
  /\ rq_head - Head(pending).v = RqSize(rq)
  /\ Head(pending).v < rq_tail
  /\ \E j \in Slots : j < Head(pending).i /\ hist.uthreads[j].present
                        /\ ~lame_bundle.uthreads[j].present

\* how often call c is in the sequence calls
CallCount(calls, c) == Cardinality({n \in 1..Len(calls) : calls[n] = c})

\* C38: with preemption disabled lame_handle_bret_slowpath returns without a
\* call and leaves total_lames alone; otherwise it saves the extended state,
\* adds one to total_lames, calls thread_cede when a cede is needed and
\* thread_yield when not, never both, and restores the extended state after
\* that call as its last call.
C38_BretSlowpath ==
  [][op'.name = "bret_slowpath"
       => IF preempt_cnt # 0
          THEN lame_bundle' = lame_bundle /\ rr' = <<>>
          ELSE /\ lame_bundle' = [lame_bundle EXCEPT !.total_lames = @ + 1]
               /\ CallCount(rr', "xsavec64") = 1 /\ CallCount(rr', "xrstor64") = 1
               /\ CallCount(rr', "thread_cede") = (IF op'.set_active THEN 1 ELSE 0)
               /\ CallCount(rr', "thread_yield") = (IF op'.set_active THEN 0 ELSE 1)
               /\ rr'[Len(rr')] = "xrstor64"
               /\ rr'[Len(rr') - 1] \in {"thread_cede", "thread_yield"}
               /\ \E n \in 1..(Len(rr') - 2) : rr'[n] = "xsavec64"]_vars

\* C38 witness: a return with preemption enabled and no cede needed yielded
\* between the save and the restore and counted one lame
C38_Witness ==
  /\ op.name = "bret_slowpath" /\ ~op.set_active /\ preempt_cnt = 0
  /\ rr = <<"getk", "xsavec64", "putk", "thread_yield", "xrstor64">>
  /\ lame_bundle.total_lames = hist.total_lames + 1

\* range [s, e) of the sidecar file, clamped to a text segment of text_len
\* bytes, has a byte in page p of size 2^f
Intersects(s, e, text_len, p, f) ==
  \E x \in 0..MaxOffset :
    /\ s <= x /\ x < e /\ x < text_len
    /\ p * Pow2(f) <= x /\ x < (p + 1) * Pow2(f)

\* C39: after gpr_bitmap_init built the bitmap, the entry of page p is set
\* exactly if some range of the sidecar file, clamped to the text segment,
\* has a byte in page p, and every write went to an index below num_pages.
C39_BitmapIffIntersects ==
  (boot.done /\ boot.out.ret = 0)
    => LET e == boot.env
           text_len == e.text_end - e.text_start
       IN  /\ \A p \in 0..(boot.out.gpr_bitmap_size - 1) :
                boot.out.gpr_bitmap[p] = 1
                  <=> \E i \in 1..Len(e.sessions) :
                        Intersects(e.sessions[i][1], e.sessions[i][2], text_len, p,
                                   e.pgsz_factor)
           /\ boot.out.written \subseteq 0..(boot.out.gpr_bitmap_size - 1)

\* C40: with a negative lame_bitmap_pgsz_factor runtime_init does not call
\* gpr_bitmap_init, so its result does not matter, and goes on to lame_init
\* whenever the phases before returned no error.
C40_NegativeFactorDisables ==
  (boot.done /\ boot.env.bitmap_pgsz_factor < 0)
    => /\ "gpr_bitmap_init" \notin boot.out.reached
       /\ (\A ph \in {"ioqueues_init_early", "base_init", "cfg_load"} : boot.env.res[ph] = 0)
            => "lame_init" \in boot.out.reached

====
